---- MODULE Spec2Model ----
EXTENDS Integers, Sequences, FiniteSets, TLC

(***************************************************************************)
(* Toyota maintenance scraper: the schedule parsers, the fallback          *)
(* generator and the batch pipelines.                                      *)
(*                                                                         *)
(* Text is modelled as a sequence of lexical tokens.  A token is a piece   *)
(* of text that the regular expressions of the parsers treat as a unit:    *)
(* a newline, a marker glyph, an interval header, the "Special Operating   *)
(* Conditions" phrase, or a phrase of ordinary words.  Blanks between      *)
(* tokens are implicit.  The regular expressions are translated to         *)
(* scanners over token sequences.                                          *)
(***************************************************************************)

VARIABLES
    pc,                 \* "ready" before the call under study, "done" after it
    doc,                \* text _extract_text yields for the file given to parse
    args,               \* model and year given to parse
    sections,           \* dict returned by _split_by_intervals(doc)
    triples,            \* (miles, months, items) per section, before pruning
    schedule,           \* MaintenanceSchedule returned by parse
    failed,             \* TRUE iff parse took its except branch
    current_condition,  \* MaintenancePDFParser.current_condition
    subspan,            \* text handed to _parse_special_conditions
    sc_items,           \* items it returned
    tschedule,          \* to_dict() of the schedule ToyotaPDFParser.parse_pdf_text returned
    clock,              \* what datetime.utcnow() returns
    calls,              \* the calls of get_standard_schedule so far, with their output
    runs,               \* number of run_scraper processes started so far
    idx,                \* position of scrape_toyota_pdfs in its (model, year) loop
    schedules,          \* the local list schedules of scrape_toyota_pdfs
    completed,          \* Checkpoint._state["completed"], as saved in .checkpoint.json
    outfile,            \* the records of maintenance_schedules.jsonl
    ex_text,            \* the text argument of a call of _extract_items
    ex_category,        \* its default_category argument
    ex_condition,       \* its condition argument
    ex_items,           \* the items the call returned
    parses,             \* the parses one parser instance made so far, with their output
    tasks,              \* the parse invocations running on one shared parser instance
    cp_state,           \* Checkpoint._state of the Checkpoint object of the running process
    cp_file,            \* what .checkpoint.json holds, None while the file does not exist
    cp_marked,          \* the (source, model, year) marked completed since the last clear
    cp_log,             \* the calls made on Checkpoint objects so far
    fx_max,             \* Fetcher.max_retries
    fx_attempt,         \* the loop variable attempt of Fetcher.fetch
    fx_trace,           \* what client.get did in each GET request of the call so far
    fx_pc,              \* "loop" inside fetch, "returned" or "raised" after it
    fx_result,          \* the FetchResult the call returned
    cache,              \* the files of settings.PDF_DIR: cache path -> content
    dl,                 \* the running or last call of ToyotaPDFScraper.download_pdf
    dl_count,           \* the number of calls of download_pdf so far
    tsections           \* the list ToyotaPDFParser._split_by_intervals(doc) returned

parser_vars == <<doc, args, sections, triples, schedule, failed, current_condition,
                 subspan, sc_items, tschedule>>

runner_vars == <<runs, idx, schedules, completed, outfile>>

unit_vars == <<ex_text, ex_category, ex_condition, ex_items, parses>>

\* the state of the concurrent parses, the checkpoint, the fetcher and the downloader
shared_vars == <<tasks>>

checkpoint_vars == <<cp_state, cp_file, cp_marked, cp_log>>

fetch_vars == <<fx_max, fx_attempt, fx_trace, fx_pc, fx_result>>

download_vars == <<cache, dl, dl_count>>

toyota_vars == <<tsections>>

ext_vars == <<shared_vars, checkpoint_vars, fetch_vars, download_vars, toyota_vars>>

\* what the actions of one of these machines leave alone
shared_rest == <<checkpoint_vars, fetch_vars, download_vars, toyota_vars>>

checkpoint_rest == <<shared_vars, fetch_vars, download_vars, toyota_vars>>

fetch_rest == <<shared_vars, checkpoint_vars, download_vars, toyota_vars>>

download_rest == <<shared_vars, checkpoint_vars, fetch_vars, toyota_vars>>

toyota_rest == <<shared_vars, checkpoint_vars, fetch_vars, download_vars>>

vars == <<pc, parser_vars, clock, calls, runner_vars, unit_vars, ext_vars>>

None == "None"

\* the value of schedule and tschedule while no schedule has been returned
NoSchedule == [intervals |-> <<>>]

----------------------------------------------------------------------------
(* Tokens *)

NL == "NL"
BOX == "BOX"
UND == "UND"
SOC == "Special Operating Conditions"
DUSTY == "Driving on dusty roads"
TOWING == "Driving while towing"
ROTATE == "Rotate tires"
BRAKES == "Inspect brakes"
FILTER == "Replace air filter"
FOOTER == "Dealer Service Verification"
NUM12 == "12"
OIL == "Oil"
PAREN == "(see note)"
OILCHG == "Replace engine oil and oil filter"
ADDL == "Additional Maintenance Items for"
\* what re.sub leaves where it removed a match: the empty string
EMPTY == ""

H5k6 == "5,000 miles or 6 months"
H5k7 == "5000 miles 7 months"
H10k12 == "10,000 miles or 12 months"
H15k18 == "15,000 miles or 18 months"

H500 == "500 miles or 1 months"
\* "1,000,000 miles or 600 months" is the two tokens RES1M, H1M: INTERVAL_PATTERN
\* cannot match from the leading "1," on, which stays in the text before the match
RES1M == "1,"
H1M == "000,000 miles or 600 months"

\* lines of the form "<N> miles or <M> months"
HeaderLines == {H5k6, H5k7, H10k12, H15k18, H500, H1M}

\* the characters of N and of M as a header line writes them
HdrNumber(h) ==
    CASE h = H5k6 -> <<"5", ",", "0", "0", "0">>
      [] h = H5k7 -> <<"5", "0", "0", "0">>
      [] h = H10k12 -> <<"1", "0", ",", "0", "0", "0">>
      [] h = H15k18 -> <<"1", "5", ",", "0", "0", "0">>
      [] h = H500 -> <<"5", "0", "0">>
      [] h = H1M -> <<"0", "0", "0", ",", "0", "0", "0">>

HdrMonths(h) ==
    CASE h = H5k6 -> <<"6">>
      [] h = H5k7 -> <<"7">>
      [] h = H10k12 -> <<"1", "2">>
      [] h = H15k18 -> <<"1", "8">>
      [] h = H500 -> <<"1">>
      [] h = H1M -> <<"6", "0", "0">>

IsDigit(c) == c \in {"0", "1", "2", "3", "4", "5", "6", "7", "8", "9"}

\* s matches  \d{1,3},?\d{3}  as a whole
IsMileageGroup(s) ==
    /\ Len(s) >= 4
    /\ \A i \in (Len(s) - 2)..Len(s) : IsDigit(s[i])
    /\ LET head == SubSeq(s, 1, Len(s) - 3)
           lead == IF head[Len(head)] = "," THEN SubSeq(head, 1, Len(head) - 1) ELSE head
       IN  /\ Len(lead) \in 1..3
           /\ \A i \in 1..Len(lead) : IsDigit(lead[i])

\* group(1) of the leftmost match of INTERVAL_PATTERN in a header line whose number is
\* written num: the group stands right before "miles", so it is the longest suffix of
\* num of the form \d{1,3},?\d{3}; the empty string when the pattern does not match
RECURSIVE MileageGroupIn(_)
MileageGroupIn(num) ==
    IF num = <<>> THEN <<>>
    ELSE IF IsMileageGroup(num) THEN num
    ELSE MileageGroupIn(Tail(num))

\* group(1) and group(2) of INTERVAL_PATTERN on a header, as character strings
HdrGroup1(h) == MileageGroupIn(HdrNumber(h))

HdrGroup2(h) == HdrMonths(h)

\* the header lines INTERVAL_PATTERN matches
HeaderTokens == {h \in HeaderLines : HdrGroup1(h) # <<>>}

\* the headers of the documents of a maintenance guide
DocHeaders == {H5k6, H5k7, H10k12}

\* number of characters of a token, for len(service)
CharLen(t) ==
    CASE t = BOX -> 1
      [] t = UND -> 1
      [] t = NL -> 1
      [] t = SOC -> 28
      [] t = DUSTY -> 22
      [] t = TOWING -> 20
      [] t = ROTATE -> 12
      [] t = BRAKES -> 14
      [] t = FILTER -> 18
      [] t = FOOTER -> 27
      [] t = NUM12 -> 2
      [] t = OIL -> 3
      [] t = PAREN -> 10
      [] t = OILCHG -> 33
      [] t = ADDL -> 32
      [] t = EMPTY -> 0
      [] t = H500 -> 21
      [] t = RES1M -> 2

\* tokens made of digits only
IsNumber(t) == t = NUM12

\* tokens that are one parenthetical note
IsParen(t) == t = PAREN

\* keywords of SPECIAL_CONDITIONS that occur in the lowercased token
TokenKeywords(t) ==
    CASE t = DUSTY -> {"dusty"}
      [] t = TOWING -> {"towing"}
      [] OTHER -> {}

----------------------------------------------------------------------------
(* Strings of characters: str.replace(",", "") and int() *)

DigitVal(c) ==
    CASE c = "0" -> 0 [] c = "1" -> 1 [] c = "2" -> 2 [] c = "3" -> 3
      [] c = "4" -> 4 [] c = "5" -> 5 [] c = "6" -> 6 [] c = "7" -> 7
      [] c = "8" -> 8 [] c = "9" -> 9

RemoveCommas(s) == SelectSeq(s, LAMBDA c : c # ",")

RECURSIVE IntOf(_)
IntOf(s) ==
    IF s = <<>> THEN 0
    ELSE IntOf(SubSeq(s, 1, Len(s) - 1)) * 10 + DigitVal(s[Len(s)])

----------------------------------------------------------------------------
(* Token-sequence helpers *)

\* first index >= i whose token is not a newline (whitespace run \s*)
RECURSIVE SkipWs(_, _)
SkipWs(text, i) ==
    IF i <= Len(text) /\ text[i] = NL THEN SkipWs(text, i + 1) ELSE i

\* first index >= i whose token is in stop, or Len(text) + 1
RECURSIVE RunEnd(_, _, _)
RunEnd(text, i, stop) ==
    IF i <= Len(text) /\ text[i] \notin stop THEN RunEnd(text, i + 1, stop) ELSE i

\* position of the first occurrence of token t at or after i, 0 if none
RECURSIVE Find(_, _, _)
Find(text, t, i) ==
    IF i > Len(text) THEN 0
    ELSE IF text[i] = t THEN i
    ELSE Find(text, t, i + 1)

\* str.split('\n')
RECURSIVE SplitLines(_)
SplitLines(text) ==
    LET p == Find(text, NL, 1)
    IN  IF p = 0 THEN <<text>>
        ELSE <<SubSeq(text, 1, p - 1)>> \o SplitLines(SubSeq(text, p + 1, Len(text)))

\* '\n'.join(lines)
RECURSIVE JoinLines(_)
JoinLines(lines) ==
    IF lines = <<>> THEN <<>>
    ELSE IF Len(lines) = 1 THEN lines[1]
    ELSE lines[1] \o <<NL>> \o JoinLines(Tail(lines))

----------------------------------------------------------------------------
(* MaintenancePDFParser (src/parsers/maintenance_pdf.py) *)

\* SPECIAL_CONDITIONS, in the order of the dict literal
SPECIAL_CONDITIONS ==
    << <<"dusty", "dusty_roads">>,
       <<"dirt road", "dusty_roads">>,
       <<"towing", "towing">>,
       <<"car-top carrier", "towing">>,
       <<"heavy vehicle loading", "heavy_loading">>,
       <<"trips of less than five miles", "short_trips_cold">>,
       <<"temperatures below 32", "short_trips_cold">>,
       <<"extensive idling", "extensive_idling">>,
       <<"low speed driving", "extensive_idling">>,
       <<"police", "fleet_use">>,
       <<"taxi", "fleet_use">>,
       <<"door-to-door delivery", "fleet_use">> >>

\* keyword in line_lower
KeywordIn(kw, line) == \E i \in 1..Len(line) : kw \in TokenKeywords(line[i])

\* the loop without its break: the last keyword of the table that matches wins
RECURSIVE NewConditionNoBreak(_, _)
NewConditionNoBreak(line, n) ==
    IF n > Len(SPECIAL_CONDITIONS) THEN None
    ELSE LET later == NewConditionNoBreak(line, n + 1)
         IN  IF later # None THEN later
             ELSE IF KeywordIn(SPECIAL_CONDITIONS[n][1], line)
                  THEN SPECIAL_CONDITIONS[n][2]
             ELSE None

\* the for/break loop over SPECIAL_CONDITIONS.items(): first match wins
RECURSIVE NewCondition(_, _)
NewCondition(line, n) ==
    IF n > Len(SPECIAL_CONDITIONS) THEN None
    ELSE IF KeywordIn(SPECIAL_CONDITIONS[n][1], line) THEN SPECIAL_CONDITIONS[n][2]
    ELSE NewCondition(line, n + 1)

\* re.sub(r'^\d+\s*', '', text)
DropLeadingNumber(s) ==
    IF s # <<>> /\ IsNumber(s[1]) THEN Tail(s) ELSE s

\* re.sub(r'\(.*?\)', '', text)
RemoveParens(s) == [i \in 1..Len(s) |-> IF IsParen(s[i]) THEN EMPTY ELSE s[i]]

\* str.strip()
RECURSIVE Strip(_)
Strip(s) ==
    IF s = <<>> THEN s
    ELSE IF s[1] = EMPTY THEN Strip(Tail(s))
    ELSE IF s[Len(s)] = EMPTY THEN Strip(SubSeq(s, 1, Len(s) - 1))
    ELSE s

\* _clean_service_text: only noise_patterns[:-3], the first two rules, are applied
CleanServiceText(s) == Strip(RemoveParens(DropLeadingNumber(s)))

\* len(service): the tokens and one blank between neighbours
RECURSIVE ServiceLen(_)
ServiceLen(s) ==
    IF s = <<>> THEN 0
    ELSE IF Len(s) = 1 THEN CharLen(s[1])
    ELSE CharLen(s[1]) + 1 + ServiceLen(Tail(s))

\* finditer of  marker \s* ([^\n marker]+) : the matches from position i on, each
\* <<marker position, first captured token, one past the last captured token>>
RECURSIVE MarkerMatches(_, _, _)
MarkerMatches(text, marker, i) ==
    IF i > Len(text) THEN <<>>
    ELSE IF text[i] = marker
         THEN LET j == SkipWs(text, i + 1)
                  k == RunEnd(text, j, {NL, marker})
              IN  IF k > j THEN << <<i, j, k>> >> \o MarkerMatches(text, marker, k)
                  ELSE MarkerMatches(text, marker, i + 1)
    ELSE MarkerMatches(text, marker, i + 1)

\* one pass that keeps every service of 3 characters or more
RECURSIVE ItemsOfMatchesKeepShort(_, _, _, _, _)
ItemsOfMatchesKeepShort(text, ms, category, condition, off) ==
    IF ms = <<>> THEN <<>>
    ELSE LET m == ms[1]
             service == CleanServiceText(SubSeq(text, m[2], m[3] - 1))
             rest == ItemsOfMatchesKeepShort(text, Tail(ms), category, condition, off)
         IN  IF service # <<>> /\ ServiceLen(service) >= 3
             THEN << [service |-> service, category |-> category,
                      condition |-> condition, pos |-> off + m[1]] >> \o rest
             ELSE rest

\* one pass of _extract_items: the items of the matches that pass the noise test.
\* pos records where in the enclosing text the marker stood (off tokens precede text).
RECURSIVE ItemsOfMatches(_, _, _, _, _)
ItemsOfMatches(text, ms, category, condition, off) ==
    IF ms = <<>> THEN <<>>
    ELSE LET m == ms[1]
             service == CleanServiceText(SubSeq(text, m[2], m[3] - 1))
             rest == ItemsOfMatches(text, Tail(ms), category, condition, off)
         IN  IF service # <<>> /\ ServiceLen(service) > 3
             THEN << [service |-> service, category |-> category,
                      condition |-> condition, pos |-> off + m[1]] >> \o rest
             ELSE rest

\* category of a checkbox item
CheckboxCategory(default_category, condition) ==
    IF condition = None THEN default_category ELSE "special_condition"

\* an underscore item taking the category of its chunk
InspectionCategoryDefault(default_category, condition) == default_category

\* category of an underscore item
InspectionCategory(default_category, condition) == "inspection"

\* _extract_items leaving the condition off the underscore items
ExtractItemsUntagged(text, default_category, condition, off) ==
    ItemsOfMatches(text, MarkerMatches(text, BOX, 1),
                   CheckboxCategory(default_category, condition), condition, off)
    \o ItemsOfMatches(text, MarkerMatches(text, UND, 1),
                      InspectionCategory(default_category, condition), None, off)

\* _extract_items(text, default_category, condition)
ExtractItems(text, default_category, condition, off) ==
    ItemsOfMatches(text, MarkerMatches(text, BOX, 1),
                   CheckboxCategory(default_category, condition), condition, off)
    \o ItemsOfMatches(text, MarkerMatches(text, UND, 1),
                      InspectionCategory(default_category, condition), condition, off)

\* the loop of _parse_special_conditions over lines[n..]: cur is current_condition,
\* block is current_block; boff and loff are the numbers of tokens that precede the
\* block and line n in the enclosing text
RECURSIVE SpecialLoop(_, _, _, _, _, _)
SpecialLoop(lines, n, cur, block, boff, loff) ==
    IF n > Len(lines)
    THEN IF block # <<>> /\ cur # None
         THEN ExtractItems(JoinLines(block), "special_condition", cur, boff)
         ELSE <<>>
    ELSE LET line == lines[n]
             new_condition == NewCondition(line, 1)
             next_off == loff + Len(line) + 1
         IN  IF new_condition # None /\ new_condition # cur
             THEN (IF block # <<>> /\ cur # None
                   THEN ExtractItems(JoinLines(block), "special_condition", cur, boff)
                   ELSE <<>>)
                  \o SpecialLoop(lines, n + 1, new_condition, <<line>>, loff, next_off)
             ELSE SpecialLoop(lines, n + 1, cur, Append(block, line), boff, next_off)

\* the loop started with a condition already current
ParseSpecialConditionsPreset(text, off) ==
    SpecialLoop(SplitLines(text), 1, "dusty_roads", <<>>, off, off)

\* _parse_special_conditions(text)
ParseSpecialConditions(text, off) ==
    SpecialLoop(SplitLines(text), 1, None, <<>>, off, off)

\* _parse_items(section_text)
ParseItems(section_text) ==
    LET p == Find(section_text, SOC, 1)
    IN  IF p # 0
        THEN ExtractItems(SubSeq(section_text, 1, p - 1), "standard", None, 0)
             \o ParseSpecialConditions(SubSeq(section_text, p + 1, Len(section_text)), p)
        ELSE ExtractItems(section_text, "standard", None, 0)

\* positions of the matches of INTERVAL_PATTERN.finditer(text), from i on
RECURSIVE HeaderMatches(_, _)
HeaderMatches(text, i) ==
    IF i > Len(text) THEN <<>>
    ELSE IF text[i] \in HeaderTokens THEN <<i>> \o HeaderMatches(text, i + 1)
    ELSE HeaderMatches(text, i + 1)

\* the key under which _split_by_intervals stores the chunk of a header
SectionKey(miles, months) == <<miles, months>>

\* d[key] = val on a dict kept as the sequence of its entries in insertion order
DictSet(d, key, val) ==
    IF \E n \in 1..Len(d) : d[n].key = key
    THEN [n \in 1..Len(d) |-> IF d[n].key = key THEN [key |-> key, val |-> val] ELSE d[n]]
    ELSE Append(d, [key |-> key, val |-> val])

\* the loop with every chunk running to the end of the text
RECURSIVE SplitLoopToEnd(_, _, _, _)
SplitLoopToEnd(text, matches, i, d) ==
    IF i > Len(matches) THEN d
    ELSE LET miles == IntOf(RemoveCommas(HdrGroup1(text[matches[i]])))
             months == IntOf(HdrGroup2(text[matches[i]]))
         IN  SplitLoopToEnd(text, matches, i + 1,
                            DictSet(d, SectionKey(miles, months),
                                    SubSeq(text, matches[i] + 1, Len(text))))

\* the loop of _split_by_intervals over matches[i..]
RECURSIVE SplitLoop(_, _, _, _)
SplitLoop(text, matches, i, d) ==
    IF i > Len(matches) THEN d
    ELSE LET miles == IntOf(RemoveCommas(HdrGroup1(text[matches[i]])))
             months == IntOf(HdrGroup2(text[matches[i]]))
             start == matches[i] + 1
             end == IF i + 1 <= Len(matches) THEN matches[i + 1] ELSE Len(text) + 1
         IN  SplitLoop(text, matches, i + 1,
                       DictSet(d, SectionKey(miles, months), SubSeq(text, start, end - 1)))

\* _split_by_intervals(text)
SplitByIntervals(text) == SplitLoop(text, HeaderMatches(text, 1), 1, <<>>)

\* the (miles, months, items) triple of every section, in dict order
ClassifiedTriples(d) ==
    [n \in 1..Len(d) |-> [interval_miles |-> d[n].key[1],
                          interval_months |-> d[n].key[2],
                          items |-> ParseItems(d[n].val)]]

\* if interval.items: intervals.append(interval)
KeepInterval(interval) == interval.items # <<>>

\* sorted(intervals, key=lambda x: x.interval_miles): a stable sort
RECURSIVE InsertByMiles(_, _)
InsertByMiles(sorted, x) ==
    IF sorted = <<>> THEN <<x>>
    ELSE IF sorted[Len(sorted)].interval_miles <= x.interval_miles THEN Append(sorted, x)
    ELSE Append(InsertByMiles(SubSeq(sorted, 1, Len(sorted) - 1), x), sorted[Len(sorted)])

RECURSIVE SortByMiles(_)
SortByMiles(s) ==
    IF s = <<>> THEN <<>>
    ELSE InsertByMiles(SortByMiles(SubSeq(s, 1, Len(s) - 1)), s[Len(s)])

\* _parse_intervals(text)
ParseIntervals(text) ==
    SortByMiles(SelectSeq(ClassifiedTriples(SplitByIntervals(text)), KeepInterval))

\* the schedule parse() builds before the try block
EmptySchedule(pdf_path, model, year) ==
    [make |-> "Toyota", model |-> model, year |-> year,
     intervals |-> <<>>, source_pdf |-> pdf_path]

----------------------------------------------------------------------------
(* ToyotaPDFParser (src/toyota-maintenance-scraper/parsers/toyota_pdf.py) *)

MILEAGE_INTERVALS ==
    << <<5000, 6>>, <<10000, 12>>, <<15000, 18>>, <<20000, 24>>, <<25000, 30>>,
       <<30000, 36>>, <<35000, 42>>, <<40000, 48>>, <<45000, 54>>, <<50000, 60>>,
       <<55000, 66>>, <<60000, 72>>, <<65000, 78>>, <<70000, 84>>, <<75000, 90>>,
       <<80000, 96>>, <<85000, 102>>, <<90000, 108>>, <<95000, 114>>, <<100000, 120>>,
       <<105000, 126>>, <<110000, 132>>, <<115000, 138>>, <<120000, 144>> >>

\* the decimal digits of n > 0, as a character string
RECURSIVE DigitsOf(_)
DigitsOf(n) ==
    LET d == <<"0", "1", "2", "3", "4", "5", "6", "7", "8", "9">>[(n % 10) + 1]
    IN  IF n < 10 THEN <<d>> ELSE Append(DigitsOf(n \div 10), d)

IsSuffix(a, b) == Len(a) <= Len(b) /\ SubSeq(b, Len(b) - Len(a) + 1, Len(b)) = a

\* the pattern  f"{mileage:,}".replace(",", ",?") + r"\s*miles..."  is searched, not
\* anchored: it matches in a header whose number ends with the digits of mileage
MileagePatternIn(mileage, h) == IsSuffix(DigitsOf(mileage), RemoveCommas(HdrGroup1(h)))

\* pattern.search(text, start): the first header token at or after start in which the
\* pattern of mileage matches, 0 if none
RECURSIVE SearchMileage(_, _, _)
SearchMileage(text, mileage, start) ==
    IF start > Len(text) THEN 0
    ELSE IF text[start] \in HeaderTokens /\ MileagePatternIn(mileage, text[start])
         THEN start
    ELSE SearchMileage(text, mileage, start + 1)

\* the inner loop of _split_by_intervals over MILEAGE_INTERVALS[k..]: the start of the
\* first match of the first larger mileage that matches after start, 0 for None
RECURSIVE NextIntervalStart(_, _, _, _)
NextIntervalStart(text, mileage, start, k) ==
    IF k > Len(MILEAGE_INTERVALS) THEN 0
    ELSE LET next_match == IF MILEAGE_INTERVALS[k][1] > mileage
                           THEN SearchMileage(text, MILEAGE_INTERVALS[k][1], start)
                           ELSE 0
         IN  IF next_match # 0 THEN next_match
             ELSE NextIntervalStart(text, mileage, start, k + 1)

\* the outer loop of ToyotaPDFParser._split_by_intervals over MILEAGE_INTERVALS[n..]
RECURSIVE ToyotaSplitLoop(_, _)
ToyotaSplitLoop(text, n) ==
    IF n > Len(MILEAGE_INTERVALS) THEN <<>>
    ELSE LET mileage == MILEAGE_INTERVALS[n][1]
             months == MILEAGE_INTERVALS[n][2]
             match == SearchMileage(text, mileage, 1)
             start == match + 1
             next_interval == NextIntervalStart(text, mileage, start, 1)
             end == IF next_interval # 0 THEN next_interval ELSE Len(text) + 1
         IN  (IF match # 0
              THEN << <<mileage, months, SubSeq(text, start, end - 1)>> >>
              ELSE <<>>)
             \o ToyotaSplitLoop(text, n + 1)

\* ToyotaPDFParser._split_by_intervals(text)
ToyotaSplitByIntervals(text) == ToyotaSplitLoop(text, 1)

\* the names of item_patterns, in order
ITEM_NAMES ==
    << "Replace engine oil and oil filter", "Replace cabin air filter",
       "Replace engine air filter", "Rotate tires", "Inspect brake system",
       "Inspect and adjust all fluid levels", "Inspect wiper blades",
       "Inspect drive shaft boots", "Inspect ball joints and dust covers",
       "Inspect steering linkage and boots", "Replace spark plugs",
       "Replace engine coolant", "Inspect exhaust pipes and mountings",
       "Inspect fuel system", "Replace differential/transfer case oil",
       "Re-torque propeller shaft bolt", "Tighten nuts and bolts on chassis and body",
       "Add Toyota EFI Tank Additive", "Check installation of driver's floor mat" >>

\* re.search(item_patterns[n][0], text, re.IGNORECASE) on the tokens of the model
ItemPatternFound(n, text) ==
    \E i \in 1..Len(text) :
        \/ n = 1 /\ text[i] = OILCHG
        \/ n = 4 /\ text[i] = ROTATE

\* CONDITION_PATTERNS, in order, and the search of each on the tokens of the model
CONDITION_NAMES == <<"dust", "towing", "cold", "idling">>

ConditionPatternFound(n, text) ==
    \E i \in 1..Len(text) : n = 2 /\ text[i] = TOWING

RECURSIVE FirstCondition(_, _)
FirstCondition(text, n) ==
    IF n > Len(CONDITION_NAMES) THEN None
    ELSE IF ConditionPatternFound(n, text) THEN CONDITION_NAMES[n]
    ELSE FirstCondition(text, n + 1)

\* ToyotaPDFParser._extract_items(text, is_special), patterns n.. of item_patterns
RECURSIVE ToyotaExtractItems(_, _, _)
ToyotaExtractItems(text, is_special, n) ==
    IF n > Len(ITEM_NAMES) THEN <<>>
    ELSE (IF ItemPatternFound(n, text)
          THEN << [name |-> ITEM_NAMES[n], required |-> TRUE,
                   special_conditions |->
                       IF is_special THEN FirstCondition(text, 1) ELSE None] >>
          ELSE <<>>)
         \o ToyotaExtractItems(text, is_special, n + 1)

\* SPECIAL_CONDITIONS_HEADER.search(text): <<start, end>> of the first match, <<0, 0>>
\* if none; the header is ADDL, blanks or newlines, then the SOC phrase
RECURSIVE SpecialHeaderSearch(_, _)
SpecialHeaderSearch(text, i) ==
    IF i > Len(text) THEN <<0, 0>>
    ELSE IF text[i] = ADDL /\ SkipWs(text, i + 1) <= Len(text)
            /\ text[SkipWs(text, i + 1)] = SOC
         THEN <<i, SkipWs(text, i + 1) + 1>>
    ELSE SpecialHeaderSearch(text, i + 1)

\* ToyotaPDFParser._parse_section(text): <<items, special_items>>
ToyotaParseSection(text) ==
    LET special_match == SpecialHeaderSearch(text, 1)
        standard_text == IF special_match[1] # 0
                         THEN SubSeq(text, 1, special_match[1] - 1) ELSE text
        special_text == IF special_match[1] # 0
                        THEN SubSeq(text, special_match[2], Len(text)) ELSE <<>>
    IN  << ToyotaExtractItems(standard_text, FALSE, 1),
           IF special_text # <<>> THEN ToyotaExtractItems(special_text, TRUE, 1)
           ELSE <<>> >>

\* the interval parse_pdf_text builds for one section; every section is appended
ToyotaInterval(section) ==
    [mileage |-> section[1], months |-> section[2],
     items |-> ToyotaParseSection(section[3])[1],
     special_operating_items |-> ToyotaParseSection(section[3])[2]]

\* ToyotaPDFParser.parse_pdf_text(text, model, year, url) at time now
ParsePdfText(text, model, year, url, now) ==
    LET secs == ToyotaSplitByIntervals(text)
    IN  [source |-> "toyota-pdf", model |-> model, year |-> year,
         intervals |-> [n \in 1..Len(secs) |-> ToyotaInterval(secs[n])],
         source_url |-> url, scraped_at |-> now]

\* MaintenanceItem(name=...): required and special_conditions take their defaults
StdItem(name) == [name |-> name, required |-> TRUE, special_conditions |-> None]

\* the items get_standard_schedule builds for one mileage
StandardItemsTypo(mileage) ==
    LET base == << StdItem("Rotate tires"), StdItem("Inspect wiper blades"),
                   StdItem("Inspect and adjust all fluid levels"),
                   StdItem("Visually inspect brake system"),
                   StdItem("Check installation of driver's floor mat") >>
        at10k == IF mileage % 10000 = 0
                 THEN <<StdItem("Replace engine oil and oil filter")>> \o base
                      \o <<StdItem("Replace cabin air filter")>>
                 ELSE base
        at30k == IF mileage % 15000 = 0
                 THEN at10k \o << StdItem("Replace engine air filter"),
                                  StdItem("Inspect drive shaft boots"),
                                  StdItem("Inspect ball joints and dust covers"),
                                  StdItem("Inspect fuel system") >>
                 ELSE at10k
        at60k == IF mileage % 60000 = 0
                 THEN at30k \o << StdItem("Inspect drive belts"),
                                  StdItem("Replace spark plugs (V6 only)") >>
                 ELSE at30k
        at100k == IF mileage = 100000
                  THEN Append(at60k, StdItem("Replace engine coolant")) ELSE at60k
    IN  IF mileage = 120000 THEN Append(at100k, StdItem("Replace spark plugs")) ELSE at100k

StandardItems(mileage) ==
    LET base == << StdItem("Rotate tires"), StdItem("Inspect wiper blades"),
                   StdItem("Inspect and adjust all fluid levels"),
                   StdItem("Visually inspect brake system"),
                   StdItem("Check installation of driver's floor mat") >>
        at10k == IF mileage % 10000 = 0
                 THEN <<StdItem("Replace engine oil and oil filter")>> \o base
                      \o <<StdItem("Replace cabin air filter")>>
                 ELSE base
        at30k == IF mileage % 30000 = 0
                 THEN at10k \o << StdItem("Replace engine air filter"),
                                  StdItem("Inspect drive shaft boots"),
                                  StdItem("Inspect ball joints and dust covers"),
                                  StdItem("Inspect fuel system") >>
                 ELSE at10k
        at60k == IF mileage % 60000 = 0
                 THEN at30k \o << StdItem("Inspect drive belts"),
                                  StdItem("Replace spark plugs (V6 only)") >>
                 ELSE at30k
        at100k == IF mileage = 100000
                  THEN Append(at60k, StdItem("Replace engine coolant")) ELSE at60k
    IN  IF mileage = 120000 THEN Append(at100k, StdItem("Replace spark plugs")) ELSE at100k

\* the MaintenanceInterval get_standard_schedule appends for one table entry
StandardIntervalSkewed(mileage, months) ==
    [mileage |-> mileage, months |-> IF mileage > 100000 THEN months + 6 ELSE months,
     items |-> StandardItems(mileage), special_operating_items |-> <<>>]

StandardInterval(mileage, months) ==
    [mileage |-> mileage, months |-> months,
     items |-> StandardItems(mileage), special_operating_items |-> <<>>]

\* ToyotaPDFParser.get_standard_schedule(model, year, url) at time now
GetStandardSchedule(model, year, url, now) ==
    [source |-> "toyota-standard", model |-> model, year |-> year,
     intervals |-> [n \in 1..Len(MILEAGE_INTERVALS) |->
                       StandardInterval(MILEAGE_INTERVALS[n][1], MILEAGE_INTERVALS[n][2])],
     source_url |-> url, scraped_at |-> now]

\* asdict(item)
ItemAsDict(item) ==
    [name |-> item.name, required |-> item.required,
     special_conditions |-> item.special_conditions]

\* MaintenanceSchedule.to_dict() of toyota_pdf.py
ToyotaToDict(s) ==
    [source |-> s.source, model |-> s.model, year |-> s.year,
     intervals |-> [n \in 1..Len(s.intervals) |->
         [mileage |-> s.intervals[n].mileage,
          months |-> s.intervals[n].months,
          items |-> [k \in 1..Len(s.intervals[n].items) |->
                        ItemAsDict(s.intervals[n].items[k])],
          special_operating_items |->
              [k \in 1..Len(s.intervals[n].special_operating_items) |->
                  ItemAsDict(s.intervals[n].special_operating_items[k])]]],
     source_url |-> s.source_url, scraped_at |-> s.scraped_at]

----------------------------------------------------------------------------
(* Storage, Checkpoint and scrape_toyota_pdfs
   (src/toyota-maintenance-scraper/storage.py, runner.py, config.py) *)

\* get_toyota_pdf_url(model, year) and get_toyota_assets_pdf_url(model, year)
ToyotaPdfUrl(model, year) == <<"www.toyota.com", year, model>>

ToyotaAssetsPdfUrl(model, year) == <<"assets.sia.toyota.com", year, model>>

\* Storage._make_key(record, ["source", "model", "year"])
MakeKey(record) == <<record.source, record.model, record.year>>

\* the keys write_jsonl loads from the existing file into _seen_keys
SeenKeys(file) == {MakeKey(file[n]) : n \in 1..Len(file)}

\* the loop of write_jsonl over records, appending to file those whose key is new
RECURSIVE WriteRecords(_, _, _)
WriteRecords(file, seen, records) ==
    IF records = <<>> THEN file
    ELSE IF MakeKey(records[1]) \in seen THEN WriteRecords(file, seen, Tail(records))
    ELSE WriteRecords(Append(file, records[1]), seen \cup {MakeKey(records[1])},
                      Tail(records))

\* Storage.write_jsonl(filename, records, key_fields) on a fresh Storage, append mode
WriteJsonl(file, records) == WriteRecords(file, SeenKeys(file), records)

\* Checkpoint key of a (model, year) of source toyota-pdf
CheckpointKey(model, year) == <<"toyota-pdf", model, year>>

\* the schedule one iteration of the loop of scrape_toyota_pdfs appends, given what
\* fetch_pdf returns for the primary and the alternate URL
ScrapedSchedule(model, year, primary, alternate, now) ==
    LET retry == ~primary.success \/ primary.content.len = 0
        result == IF retry THEN alternate ELSE primary
        url == IF retry THEN ToyotaAssetsPdfUrl(model, year) ELSE ToyotaPdfUrl(model, year)
        text == result.content.text
    IN  IF result.success /\ result.content.len # 0
        THEN IF text # <<>>
             THEN ToyotaToDict(ParsePdfText(text, model, year, url, now))
             ELSE ToyotaToDict(GetStandardSchedule(model, year, url, now))
        ELSE ToyotaToDict(GetStandardSchedule(model, year, url, now))

----------------------------------------------------------------------------
(* Inputs *)

MaxSections == 2
MaxSubLen == 6
MaxClock == 2
MaxCalls == 2
MaxRuns == 2
MaxHeaders == 2
MaxTextLen == 4
MaxParses == 3

\* the (model, year) a single parse is run for
ParseArgs == {[model |-> "Camry", year |-> 2024], [model |-> "RAV4", year |-> 2023]}

\* config.models x config.years, in loop order
Jobs == << <<"Camry", 2024>>, <<"RAV4", 2024>> >>

\* what pdftotext extracts from a downloaded PDF; the empty text stands for None
PdfTexts == { <<>>, <<FOOTER, NL>>, <<H5k6, NL, BOX, ROTATE, NL>> }

\* FetchResult.content, by its length and the text it holds
PdfContents ==
    {[len |-> 0, text |-> <<>>]} \cup {[len |-> 1, text |-> t] : t \in PdfTexts}

\* what Fetcher.fetch_pdf may return
FetchResults ==
    {[success |-> FALSE, content |-> [len |-> 0, text |-> <<>>]]}
    \cup {[success |-> TRUE, content |-> c] : c \in PdfContents}

Urls == {"", "https://www.toyota.com/T-MMS.pdf"}

Models == {"Camry", "RAV4"}
Years == {2023, 2024}

\* texts that follow an interval header in a document
Chunks ==
    { <<>>,
      <<NL, BOX, ROTATE, NL>>,
      <<NL, UND, BRAKES, NL>>,
      <<NL, FOOTER, NL>>,
      <<NL, BOX, OILCHG, NL, ADDL, NL, SOC, NL, TOWING, NL, BOX, ROTATE, NL>>,
      <<NL, BOX, NUM12, OIL, NL, BOX, PAREN, NL>>,
      <<NL, SOC, NL, DUSTY, NL, BOX, FILTER, NL>>,
      <<NL, BOX, ROTATE, PAREN, NL, SOC, NL, TOWING, NL, UND, BRAKES, NL>>,
      <<NL, UND, BRAKES, NL, BOX, ROTATE, NL>> }

RECURSIVE Flatten(_)
Flatten(ss) == IF ss = <<>> THEN <<>> ELSE ss[1] \o Flatten(Tail(ss))

\* documents: up to MaxSections headers, each followed by a chunk
Docs ==
    { Flatten([n \in DOMAIN f |-> <<f[n][1]>> \o f[n][2]]) :
        f \in UNION { [1..n -> DocHeaders \X Chunks] : n \in 0..MaxSections } }

\* text before the first header, and text between two header lines
Preambles == { <<>>, <<BOX, ROTATE, NL>> }

Fillers == { <<>>, <<NL, BOX, ROTATE, NL>>, <<NL, UND, BRAKES, NL>> }

\* the tokens of a header line, by the token that ends it
HeaderForm(h) == IF h = H1M THEN <<RES1M, H1M>> ELSE <<h>>

\* texts with up to MaxHeaders header lines of any written form
SplitDocs ==
    { pre \o Flatten([n \in DOMAIN f |-> HeaderForm(f[n][1]) \o f[n][2]]) :
        pre \in Preambles,
        f \in UNION { [1..n -> HeaderLines \X Fillers] : n \in 0..MaxHeaders } }

\* texts handed to _extract_items
ExtractAlphabet == {NL, BOX, UND, ROTATE, OIL, NUM12, PAREN, FOOTER}
ExtractTexts == UNION { [1..n -> ExtractAlphabet] : n \in 0..MaxTextLen }

\* the (default_category, condition) of the calls of _extract_items: the standard
\* body, and a block of _parse_special_conditions with its current condition
ExtractCalls ==
    { [default_category |-> "standard", condition |-> None],
      [default_category |-> "special_condition", condition |-> "dusty_roads"],
      [default_category |-> "special_condition", condition |-> "towing"] }

\* texts one parser instance is given again and again
ReparseTexts == { <<FOOTER, NL>>, <<H5k6, NL, BOX, ROTATE, NL>> }

\* texts that follow the "Special Operating Conditions" marker
SubAlphabet == {NL, BOX, UND, DUSTY, TOWING, FILTER}
SubSpans == UNION { [1..n -> SubAlphabet] : n \in 0..MaxSubLen }

----------------------------------------------------------------------------
(* State machines *)

CondIdle ==
    /\ subspan = <<>>
    /\ sc_items = <<>>

ParserIdle ==
    /\ doc = <<>>
    /\ args = None
    /\ sections = <<>>
    /\ triples = <<>>
    /\ schedule = NoSchedule
    /\ failed = FALSE
    /\ current_condition = None
    /\ tschedule = NoSchedule

FallbackIdle ==
    /\ clock = 0
    /\ calls = <<>>

RunnerIdle ==
    /\ runs = 0
    /\ idx = 1
    /\ schedules = <<>>
    /\ completed = {}
    /\ outfile = <<>>

UnitIdle ==
    /\ ex_text = <<>>
    /\ ex_category = None
    /\ ex_condition = None
    /\ ex_items = <<>>
    /\ parses = <<>>

SharedIdle ==
    /\ tasks = <<>>

CheckpointIdle ==
    /\ cp_state = None
    /\ cp_file = None
    /\ cp_marked = {}
    /\ cp_log = <<>>

FetchIdle ==
    /\ fx_max = 0
    /\ fx_attempt = 0
    /\ fx_trace = <<>>
    /\ fx_pc = None
    /\ fx_result = None

DownloadIdle ==
    /\ cache = <<>>
    /\ dl = None
    /\ dl_count = 0

ToyotaSplitIdle ==
    /\ tsections = <<>>

ExtIdle ==
    /\ SharedIdle
    /\ CheckpointIdle
    /\ FetchIdle
    /\ DownloadIdle
    /\ ToyotaSplitIdle

\* a parser after __init__, about to be given a document whose extracted text is doc
Init ==
    /\ ExtIdle
    /\ pc = "ready"
    /\ doc \in Docs
    /\ args \in ParseArgs
    /\ sections = <<>>
    /\ triples = <<>>
    /\ schedule = NoSchedule
    /\ failed = FALSE
    /\ current_condition = None
    /\ tschedule = NoSchedule
    /\ CondIdle
    /\ FallbackIdle
    /\ RunnerIdle
    /\ UnitIdle

\* MaintenancePDFParser.parse(pdf_path, model, year), _extract_text returning doc
Parse ==
    /\ pc = "ready"
    /\ pc' = "done"
    /\ sections' = SplitByIntervals(doc)
    /\ triples' = ClassifiedTriples(SplitByIntervals(doc))
    /\ schedule' = [EmptySchedule(<<args.year, args.model>>, args.model, args.year)
                       EXCEPT !.intervals = ParseIntervals(doc)]
    /\ failed' = FALSE
    /\ current_condition' = None
    /\ UNCHANGED <<doc, args, subspan, sc_items, tschedule, clock, calls, runner_vars, unit_vars,
                   ext_vars>>

\* parse() that fails after part of the document was parsed and keeps that part
ParseRaisesPartial ==
    /\ pc = "ready"
    /\ pc' = "done"
    /\ schedule' = [EmptySchedule(<<args.year, args.model>>, args.model, args.year)
                       EXCEPT !.intervals = IF ParseIntervals(doc) = <<>> THEN <<>>
                                            ELSE <<ParseIntervals(doc)[1]>>]
    /\ failed' = TRUE
    /\ UNCHANGED <<doc, args, sections, triples, current_condition, subspan, sc_items,
                   tschedule, clock, calls, runner_vars, unit_vars, ext_vars>>

\* MaintenancePDFParser.parse(pdf_path, model, year), _extract_text raising
ParseRaises ==
    /\ pc = "ready"
    /\ pc' = "done"
    /\ schedule' = EmptySchedule(<<args.year, args.model>>, args.model, args.year)
    /\ failed' = TRUE
    /\ UNCHANGED <<doc, args, sections, triples, current_condition, subspan, sc_items,
                   tschedule, clock, calls, runner_vars, unit_vars, ext_vars>>

\* ToyotaPDFParser.parse_pdf_text(doc, model, year, url)
CallParsePdfText ==
    /\ pc = "ready"
    /\ pc' = "done"
    /\ tschedule' = ToyotaToDict(ParsePdfText(doc, args.model, args.year, "url", clock))
    /\ UNCHANGED <<doc, args, sections, triples, schedule, failed, current_condition,
                   subspan, sc_items, clock, calls, runner_vars, unit_vars, ext_vars>>

Next == Parse \/ ParseRaises

Spec == Init /\ [][Next]_vars

\* a parser after __init__, about to be given a text with header lines of any form
InitSplit ==
    /\ ExtIdle
    /\ pc = "ready"
    /\ doc \in SplitDocs
    /\ args \in ParseArgs
    /\ sections = <<>>
    /\ triples = <<>>
    /\ schedule = NoSchedule
    /\ failed = FALSE
    /\ current_condition = None
    /\ tschedule = NoSchedule
    /\ CondIdle
    /\ FallbackIdle
    /\ RunnerIdle
    /\ UnitIdle

SpecSplit == InitSplit /\ [][Next]_vars

\* ToyotaPDFParser._split_by_intervals(doc)
CallToyotaSplitByIntervals ==
    /\ pc = "ready"
    /\ pc' = "done"
    /\ tsections' = ToyotaSplitByIntervals(doc)
    /\ UNCHANGED <<parser_vars, clock, calls, runner_vars, unit_vars, toyota_rest>>

NextToyotaSplit == CallToyotaSplitByIntervals

SpecToyotaSplit == InitSplit /\ [][NextToyotaSplit]_vars

NextToyota == CallParsePdfText

SpecToyota == Init /\ [][NextToyota]_vars

\* a sub-span about to be handed to _parse_special_conditions
InitCond ==
    /\ ExtIdle
    /\ pc = "ready"
    /\ subspan \in SubSpans
    /\ sc_items = <<>>
    /\ ParserIdle
    /\ FallbackIdle
    /\ RunnerIdle
    /\ UnitIdle

\* MaintenancePDFParser._parse_special_conditions(subspan)
CallParseSpecialConditions ==
    /\ pc = "ready"
    /\ pc' = "done"
    /\ sc_items' = ParseSpecialConditions(subspan, 0)
    /\ UNCHANGED <<doc, args, sections, triples, schedule, failed, current_condition,
                   subspan, tschedule, clock, calls, runner_vars, unit_vars, ext_vars>>

NextCond == CallParseSpecialConditions

SpecCond == InitCond /\ [][NextCond]_vars

\* a ToyotaPDFParser after __init__
InitFallback ==
    /\ ExtIdle
    /\ pc = "ready"
    /\ ParserIdle
    /\ CondIdle
    /\ FallbackIdle
    /\ RunnerIdle
    /\ UnitIdle

\* time passes
Tick ==
    /\ clock < MaxClock
    /\ clock' = clock + 1
    /\ UNCHANGED <<pc, parser_vars, calls, runner_vars, unit_vars, ext_vars>>

\* get_standard_schedule(model, year, url).to_dict()
CallGetStandardSchedule ==
    /\ Len(calls) < MaxCalls
    /\ \E model \in Models, year \in Years, url \in Urls :
           calls' = Append(calls,
               [model |-> model, year |-> year, url |-> url,
                out |-> ToyotaToDict(GetStandardSchedule(model, year, url, clock))])
    /\ UNCHANGED <<pc, parser_vars, clock, runner_vars, unit_vars, ext_vars>>

NextFallback == Tick \/ CallGetStandardSchedule

SpecFallback == InitFallback /\ [][NextFallback]_vars

\* a text about to be handed to _extract_items
InitExtract ==
    /\ ExtIdle
    /\ pc = "ready"
    /\ ex_text \in ExtractTexts
    /\ \E c \in ExtractCalls :
           ex_category = c.default_category /\ ex_condition = c.condition
    /\ ex_items = <<>>
    /\ parses = <<>>
    /\ ParserIdle
    /\ CondIdle
    /\ FallbackIdle
    /\ RunnerIdle

\* MaintenancePDFParser._extract_items(ex_text, ex_category, ex_condition)
CallExtractItems ==
    /\ pc = "ready"
    /\ pc' = "done"
    /\ ex_items' = ExtractItems(ex_text, ex_category, ex_condition, 0)
    /\ UNCHANGED <<parser_vars, clock, calls, runner_vars, ex_text, ex_category,
                   ex_condition, parses, ext_vars>>

NextExtract == CallExtractItems

SpecExtract == InitExtract /\ [][NextExtract]_vars

\* a MaintenancePDFParser and a ToyotaPDFParser after __init__
InitReparse ==
    /\ ExtIdle
    /\ pc = "ready"
    /\ ParserIdle
    /\ CondIdle
    /\ FallbackIdle
    /\ RunnerIdle
    /\ UnitIdle

\* MaintenancePDFParser.parse(pdf_path, model, year) on the same instance,
\* _extract_text returning text
ParseAgain ==
    /\ Len(parses) < MaxParses
    /\ \E text \in ReparseTexts, a \in ParseArgs :
           parses' = Append(parses,
               [parser |-> "MaintenancePDFParser", text |-> text, model |-> a.model,
                year |-> a.year, source |-> <<a.year, a.model>>,
                out |-> [EmptySchedule(<<a.year, a.model>>, a.model, a.year)
                            EXCEPT !.intervals = ParseIntervals(text)]])
    /\ current_condition' = None
    /\ UNCHANGED <<pc, doc, args, sections, triples, schedule, failed, subspan, sc_items,
                   tschedule, clock, calls, runner_vars, ex_text, ex_category,
                   ex_condition, ex_items, ext_vars>>

\* ToyotaPDFParser.parse_pdf_text(text, model, year, url) on the same instance
ParsePdfTextAgain ==
    /\ Len(parses) < MaxParses
    /\ \E text \in ReparseTexts, a \in ParseArgs :
           parses' = Append(parses,
               [parser |-> "ToyotaPDFParser", text |-> text, model |-> a.model,
                year |-> a.year, source |-> ToyotaPdfUrl(a.model, a.year),
                out |-> ParsePdfText(text, a.model, a.year,
                                     ToyotaPdfUrl(a.model, a.year), clock)])
    /\ UNCHANGED <<pc, parser_vars, clock, calls, runner_vars, ex_text, ex_category,
                   ex_condition, ex_items, ext_vars>>

NextReparse == Tick \/ ParseAgain \/ ParsePdfTextAgain

SpecReparse == InitReparse /\ [][NextReparse]_vars

\* before the first run_scraper process: no checkpoint file, no output file
InitRunner ==
    /\ ExtIdle
    /\ pc = "idle"
    /\ ParserIdle
    /\ CondIdle
    /\ FallbackIdle
    /\ RunnerIdle
    /\ UnitIdle

\* run_scraper up to the call of scrape_toyota_pdfs: Checkpoint() loads the saved
\* state, clear() empties it unless resume, start_session() saves it
RunnerStart ==
    /\ pc = "idle"
    /\ runs < MaxRuns
    /\ runs' = runs + 1
    /\ pc' = "loop"
    /\ idx' = 1
    /\ schedules' = <<>>
    /\ \E resume \in BOOLEAN : completed' = IF resume THEN completed ELSE {}
    /\ UNCHANGED <<parser_vars, unit_vars, clock, calls, outfile, ext_vars>>

\* one iteration of the loop for a (model, year) the checkpoint holds: continue
RunnerSkip ==
    /\ pc = "loop"
    /\ idx <= Len(Jobs)
    /\ CheckpointKey(Jobs[idx][1], Jobs[idx][2]) \in completed
    /\ idx' = idx + 1
    /\ UNCHANGED <<pc, parser_vars, unit_vars, clock, calls, runs, schedules, completed,
                   outfile, ext_vars>>

\* one iteration of the loop for a (model, year) not yet completed
RunnerProcess ==
    /\ pc = "loop"
    /\ idx <= Len(Jobs)
    /\ CheckpointKey(Jobs[idx][1], Jobs[idx][2]) \notin completed
    /\ \E primary \in FetchResults, alternate \in FetchResults :
           schedules' = Append(schedules,
               ScrapedSchedule(Jobs[idx][1], Jobs[idx][2], primary, alternate, clock))
    /\ completed' = completed \cup {CheckpointKey(Jobs[idx][1], Jobs[idx][2])}
    /\ idx' = idx + 1
    /\ UNCHANGED <<pc, parser_vars, unit_vars, clock, calls, runs, outfile, ext_vars>>

\* after the loop: write the collected schedules and return
RunnerWrite ==
    /\ pc = "loop"
    /\ idx > Len(Jobs)
    /\ outfile' = IF schedules # <<>> THEN WriteJsonl(outfile, schedules) ELSE outfile
    /\ pc' = "idle"
    /\ UNCHANGED <<parser_vars, unit_vars, clock, calls, runs, idx, schedules, completed,
                   ext_vars>>

\* one iteration of the loop in which fetch_pdf or extract_pdf_text raises (a
\* Retry-After that is no integer, an OSError of the temporary file or of pdftotext):
\* nothing in scrape_toyota_pdfs or run_scraper catches it, the process ends with
\* the list schedules unwritten; the checkpoint file keeps what was saved
RunnerRaises ==
    /\ pc = "loop"
    /\ idx <= Len(Jobs)
    /\ CheckpointKey(Jobs[idx][1], Jobs[idx][2]) \notin completed
    /\ pc' = "idle"
    /\ idx' = 1
    /\ schedules' = <<>>
    /\ UNCHANGED <<parser_vars, unit_vars, clock, calls, runs, completed, outfile, ext_vars>>

NextRunner == RunnerStart \/ RunnerSkip \/ RunnerProcess \/ RunnerRaises \/ RunnerWrite

SpecRunner == InitRunner /\ [][NextRunner]_vars

----------------------------------------------------------------------------
(* Parse invocations interleaved on one MaintenancePDFParser instance.  An
   invocation keeps text, sections, items, lines, current_condition and
   current_block in locals of its own frames; the instance holds one attribute,
   self.current_condition, which is the variable current_condition. *)

MaxTasks == 2

\* documents given to the invocations that share the parser
SharedDocs ==
    { <<H5k6, NL, BOX, ROTATE, NL>>,
      <<H5k6, NL, BOX, OILCHG, NL, SOC, NL, DUSTY, NL, BOX, FILTER, NL, DUSTY, NL,
        UND, BRAKES, NL>>,
      <<H10k12, NL, SOC, NL, TOWING, NL, BOX, ROTATE, NL, DUSTY, NL, BOX, FILTER, NL>>,
      <<H10k12, NL, UND, BRAKES, NL, H5k6, NL, SOC, NL, DUSTY, NL, BOX, FILTER, NL>> }

\* the frame of parse(pdf_path, model, year) when it is called; mixed records that
\* another invocation ran between two steps of this one
NewTask(text) ==
    [pc |-> "split", doc |-> text, secs |-> <<>>, k |-> 1, items |-> <<>>,
     lines |-> <<>>, n |-> 1, cur |-> None, block |-> <<>>, boff |-> 0, loff |-> 0,
     triples |-> <<>>, result |-> NoSchedule, mixed |-> FALSE]

\* the frames after invocation t took the step that left it as frame new
Stepped(t, new) ==
    [u \in DOMAIN tasks |->
        IF u = t THEN new
        ELSE IF tasks[u].pc \in {"items", "lines"} THEN [tasks[u] EXCEPT !.mixed = TRUE]
        ELSE tasks[u]]

\* the triple _parse_intervals builds from section k of a frame and its items
TaskTriple(task, items) ==
    [interval_miles |-> task.secs[task.k].key[1],
     interval_months |-> task.secs[task.k].key[2],
     items |-> items]

InitShared ==
    /\ pc = "ready"
    /\ ToyotaSplitIdle
    /\ CheckpointIdle
    /\ FetchIdle
    /\ DownloadIdle
    /\ ParserIdle
    /\ CondIdle
    /\ FallbackIdle
    /\ RunnerIdle
    /\ UnitIdle
    /\ tasks \in [1..MaxTasks -> {NewTask(text) : text \in SharedDocs}]

\* invocation t: _extract_text and _split_by_intervals
TaskSplit(t) ==
    /\ tasks[t].pc = "split"
    /\ tasks' = Stepped(t, [tasks[t] EXCEPT !.pc = "items",
                                            !.secs = SplitByIntervals(tasks[t].doc)])
    /\ UNCHANGED <<pc, parser_vars, clock, calls, runner_vars, unit_vars,
                       shared_rest>>

\* invocation t: _parse_items of its next section, up to the loop over the lines of
\* the special-conditions part
TaskParseItems(t) ==
    LET task == tasks[t]
        text == task.secs[task.k].val
        p == Find(text, SOC, 1)
    IN  /\ task.pc = "items"
        /\ task.k <= Len(task.secs)
        /\ current_condition' = None
        /\ tasks' = Stepped(t,
              IF p # 0
              THEN [task EXCEPT !.pc = "lines",
                                !.items = ExtractItems(SubSeq(text, 1, p - 1),
                                                       "standard", None, 0),
                                !.lines = SplitLines(SubSeq(text, p + 1, Len(text))),
                                !.n = 1, !.cur = None, !.block = <<>>,
                                !.boff = p, !.loff = p]
              ELSE [task EXCEPT !.triples = Append(task.triples,
                                    TaskTriple(task, ExtractItems(text, "standard", None, 0))),
                                !.k = task.k + 1])
        /\ UNCHANGED <<pc, doc, args, sections, triples, schedule, failed, subspan,
                       sc_items, tschedule, clock, calls, runner_vars, unit_vars,
                       shared_rest>>

\* the body of the loop with the tracker kept in self.current_condition
TaskLineOnSelf(t) ==
    LET task == tasks[t]
        line == task.lines[task.n]
        new_condition == NewCondition(line, 1)
        next_off == task.loff + Len(line) + 1
    IN  /\ task.pc = "lines"
        /\ task.n <= Len(task.lines)
        /\ current_condition' =
              IF new_condition # None /\ new_condition # current_condition
              THEN new_condition ELSE current_condition
        /\ tasks' = Stepped(t,
              IF new_condition # None /\ new_condition # current_condition
              THEN [task EXCEPT
                      !.items = task.items \o
                          (IF task.block # <<>> /\ current_condition # None
                           THEN ExtractItems(JoinLines(task.block), "special_condition",
                                             current_condition, task.boff)
                           ELSE <<>>),
                      !.cur = new_condition, !.block = <<line>>,
                      !.boff = task.loff, !.loff = next_off, !.n = task.n + 1]
              ELSE [task EXCEPT !.block = Append(task.block, line),
                                !.cur = current_condition,
                                !.loff = next_off, !.n = task.n + 1])
        /\ UNCHANGED <<pc, doc, args, sections, triples, schedule, failed, subspan,
                       sc_items, tschedule, clock, calls, runner_vars, unit_vars,
                       shared_rest>>

\* invocation t: one pass of the body of the loop of _parse_special_conditions
TaskLine(t) ==
    LET task == tasks[t]
        line == task.lines[task.n]
        new_condition == NewCondition(line, 1)
        next_off == task.loff + Len(line) + 1
    IN  /\ task.pc = "lines"
        /\ task.n <= Len(task.lines)
        /\ tasks' = Stepped(t,
              IF new_condition # None /\ new_condition # task.cur
              THEN [task EXCEPT
                      !.items = task.items \o
                          (IF task.block # <<>> /\ task.cur # None
                           THEN ExtractItems(JoinLines(task.block), "special_condition",
                                             task.cur, task.boff)
                           ELSE <<>>),
                      !.cur = new_condition, !.block = <<line>>,
                      !.boff = task.loff, !.loff = next_off, !.n = task.n + 1]
              ELSE [task EXCEPT !.block = Append(task.block, line),
                                !.loff = next_off, !.n = task.n + 1])
        /\ UNCHANGED <<pc, parser_vars, clock, calls, runner_vars, unit_vars,
                       shared_rest>>

\* invocation t: the final block of _parse_special_conditions, the return of
\* _parse_items and the MaintenanceInterval built from it
TaskBlockEnd(t) ==
    LET task == tasks[t]
        last == IF task.block # <<>> /\ task.cur # None
                THEN ExtractItems(JoinLines(task.block), "special_condition",
                                  task.cur, task.boff)
                ELSE <<>>
    IN  /\ task.pc = "lines"
        /\ task.n > Len(task.lines)
        /\ tasks' = Stepped(t,
              [task EXCEPT !.pc = "items",
                           !.triples = Append(task.triples,
                                              TaskTriple(task, task.items \o last)),
                           !.items = <<>>, !.lines = <<>>, !.n = 1, !.cur = None,
                           !.block = <<>>, !.boff = 0, !.loff = 0,
                           !.k = task.k + 1])
        /\ UNCHANGED <<pc, parser_vars, clock, calls, runner_vars, unit_vars,
                       shared_rest>>

\* invocation t: the end of _parse_intervals and the return of parse
TaskReturn(t) ==
    LET task == tasks[t]
    IN  /\ task.pc = "items"
        /\ task.k > Len(task.secs)
        /\ tasks' = Stepped(t,
              [task EXCEPT !.pc = "done",
                           !.result = [EmptySchedule("path", "Camry", 2024) EXCEPT
                               !.intervals = SortByMiles(SelectSeq(task.triples,
                                                                   KeepInterval))]])
        /\ UNCHANGED <<pc, parser_vars, clock, calls, runner_vars, unit_vars,
                       shared_rest>>

NextShared ==
    \E t \in 1..MaxTasks :
        TaskSplit(t) \/ TaskParseItems(t) \/ TaskLine(t) \/ TaskBlockEnd(t) \/ TaskReturn(t)

SpecShared == InitShared /\ [][NextShared]_vars

----------------------------------------------------------------------------
(* Serialization of the schedules of MaintenancePDFParser
   (src/parsers/maintenance_pdf.py) *)

\* asdict(item) of a MaintenanceItem: its three fields
MaintenanceItemAsDict(item) ==
    [service |-> item.service, category |-> item.category, condition |-> item.condition]

\* MaintenanceInterval.to_dict()
IntervalToDict(interval) ==
    [interval_miles |-> interval.interval_miles,
     interval_months |-> interval.interval_months,
     items |-> [k \in 1..Len(interval.items) |-> MaintenanceItemAsDict(interval.items[k])]]

\* MaintenanceSchedule.to_dict()
ToDict(s) ==
    [make |-> s.make, model |-> s.model, year |-> s.year,
     maintenance_schedule |-> [n \in 1..Len(s.intervals) |-> IntervalToDict(s.intervals[n])],
     source_pdf |-> s.source_pdf]

----------------------------------------------------------------------------
(* Checkpoint (src/toyota-maintenance-scraper/storage.py).  A string is the
   sequence of its pieces; a dict is the sequence of its entries in insertion
   order, as for DictSet. *)

MaxCpCalls == 5

\* the (source, model, year) the calls are made with: the sources of runner.py and
\* model names as the command line can give them
CpTriples ==
    { <<"toyota-pdf", <<"Camry">>, 2024>>,
      <<"owners-manual", <<"Camry">>, 2024>>,
      <<"toyota-pdf", <<"Camry", ":", 2024>>, 2024>> }

\* f"{source}:{model}:{year}"
CompletedKey(source, model, year) == <<source>> \o <<":">> \o model \o <<":">> \o <<year>>

\* {"completed": {}, "started_at": None}
EmptyState == [completed |-> <<>>, started_at |-> None]

\* json.dump(self._state, f): the members of the object and of its "completed" object
JsonDump(state) ==
    << <<"completed", [n \in 1..Len(state.completed) |->
                          <<state.completed[n].key, state.completed[n].val>>]>>,
       <<"started_at", state.started_at>> >>

\* the dict json.load builds from the members of an object
RECURSIVE DictOfMembers(_, _)
DictOfMembers(members, d) ==
    IF members = <<>> THEN d
    ELSE DictOfMembers(Tail(members), DictSet(d, members[1][1], members[1][2]))

\* json.load(f) of a checkpoint file
JsonLoad(file) ==
    [completed |-> DictOfMembers(file[1][2], <<>>), started_at |-> file[2][2]]

\* Checkpoint._load()
Load(file) == IF file # None THEN JsonLoad(file) ELSE EmptyState

\* Checkpoint.is_completed(source, model, year)
IsCompleted(source, model, year) ==
    \E n \in 1..Len(cp_state.completed) :
        cp_state.completed[n].key = CompletedKey(source, model, year)

\* the first process: no checkpoint file, Checkpoint(output_dir) just constructed
InitCheckpoint ==
    /\ pc = "ready"
    /\ ParserIdle
    /\ CondIdle
    /\ FallbackIdle
    /\ RunnerIdle
    /\ UnitIdle
    /\ ToyotaSplitIdle
    /\ SharedIdle
    /\ FetchIdle
    /\ DownloadIdle
    /\ cp_state = Load(None)
    /\ cp_file = None
    /\ cp_marked = {}
    /\ cp_log = <<>>

\* time passes between two calls
CheckpointTick ==
    /\ clock < MaxClock
    /\ clock' = clock + 1
    /\ UNCHANGED <<pc, parser_vars, calls, runner_vars, unit_vars, checkpoint_vars,
                   checkpoint_rest>>

\* Checkpoint.mark_completed(source, model, year)
MarkCompleted ==
    /\ Len(cp_log) < MaxCpCalls
    /\ \E t \in CpTriples :
          /\ cp_state' = [cp_state EXCEPT !.completed =
                             DictSet(cp_state.completed, CompletedKey(t[1], t[2], t[3]), clock)]
          /\ cp_marked' = cp_marked \cup {t}
    /\ cp_file' = JsonDump(cp_state')
    /\ cp_log' = Append(cp_log, "mark_completed")
    /\ UNCHANGED <<pc, parser_vars, clock, calls, runner_vars, unit_vars, checkpoint_rest>>

\* Checkpoint.start_session()
StartSession ==
    /\ Len(cp_log) < MaxCpCalls
    /\ cp_state' = [cp_state EXCEPT !.started_at = clock]
    /\ cp_file' = JsonDump(cp_state')
    /\ cp_log' = Append(cp_log, "start_session")
    /\ UNCHANGED <<pc, parser_vars, clock, calls, runner_vars, unit_vars, cp_marked,
                   checkpoint_rest>>

\* clear() that resets the state in memory and leaves the file as it is
ClearUnsaved ==
    /\ Len(cp_log) < MaxCpCalls
    /\ cp_state' = EmptyState
    /\ cp_marked' = {}
    /\ cp_log' = Append(cp_log, "clear")
    /\ UNCHANGED <<pc, parser_vars, clock, calls, runner_vars, unit_vars, cp_file,
                   checkpoint_rest>>

\* Checkpoint.clear()
Clear ==
    /\ Len(cp_log) < MaxCpCalls
    /\ cp_state' = EmptyState
    /\ cp_file' = JsonDump(cp_state')
    /\ cp_marked' = {}
    /\ cp_log' = Append(cp_log, "clear")
    /\ UNCHANGED <<pc, parser_vars, clock, calls, runner_vars, unit_vars, checkpoint_rest>>

\* the process ends and a later one constructs Checkpoint(output_dir)
NewCheckpoint ==
    /\ Len(cp_log) < MaxCpCalls
    /\ cp_state' = Load(cp_file)
    /\ cp_log' = Append(cp_log, "__init__")
    /\ UNCHANGED <<pc, parser_vars, clock, calls, runner_vars, unit_vars, cp_file, cp_marked,
                   checkpoint_rest>>

NextCheckpoint == CheckpointTick \/ MarkCompleted \/ StartSession \/ Clear \/ NewCheckpoint

SpecCheckpoint == InitCheckpoint /\ [][NextCheckpoint]_vars

----------------------------------------------------------------------------
(* Fetcher.fetch (src/toyota-maintenance-scraper/fetcher.py) *)

MaxRetries == 3

\* the Retry-After header of a response: absent, delay-seconds, or an HTTP-date; a
\* header value is the sequence of its characters
NoHeader == [present |-> FALSE, value |-> <<>>]

RetryAfterHeaders ==
    { NoHeader,
      [present |-> TRUE, value |-> <<"1", "2", "0">>],
      [present |-> TRUE, value |-> <<"W", "e", "d", ",">>] }

\* what one client.get(url) does: it returns a response, or raises
\* httpx.TimeoutException or another httpx.RequestError
GetOutcomes ==
    {[kind |-> "response", status |-> s, retry_after |-> NoHeader] : s \in {200, 404, 500, 503}}
    \cup {[kind |-> "response", status |-> 429, retry_after |-> h] : h \in RetryAfterHeaders}
    \cup {[kind |-> k, status |-> 0, retry_after |-> NoHeader] : k \in {"timeout", "request_error"}}

\* int(s) returns: s is a run of decimal digits
IsIntLiteral(s) == s # <<>> /\ \A i \in 1..Len(s) : IsDigit(s[i])

\* int(response.headers.get("Retry-After", 60)) returns a number rather than raising
RetryAfterParses(header) == ~header.present \/ IsIntLiteral(header.value)

\* FetchResult(success=..., url=url, status_code=..., error=...)
FetchResult(success, status_code, error) ==
    [success |-> success, status_code |-> status_code, error |-> error]

\* a Fetcher with max_retries set, fetch(url) about to enter its loop
InitFetch ==
    /\ pc = "ready"
    /\ ParserIdle
    /\ CondIdle
    /\ FallbackIdle
    /\ RunnerIdle
    /\ UnitIdle
    /\ ToyotaSplitIdle
    /\ SharedIdle
    /\ CheckpointIdle
    /\ DownloadIdle
    /\ fx_max \in 1..MaxRetries
    /\ fx_attempt = 0
    /\ fx_trace = <<>>
    /\ fx_pc = "loop"
    /\ fx_result = None

\* one pass of the loop body in which client.get returns a 429 response
FetchRateLimited ==
    /\ fx_pc = "loop"
    /\ fx_attempt < fx_max
    /\ \E o \in GetOutcomes :
          /\ o.kind = "response" /\ o.status = 429
          /\ fx_trace' = Append(fx_trace, o)
          /\ IF RetryAfterParses(o.retry_after)
             THEN fx_attempt' = fx_attempt + 1 /\ fx_pc' = "loop"
             ELSE fx_attempt' = fx_attempt /\ fx_pc' = "raised"
    /\ UNCHANGED <<pc, parser_vars, clock, calls, runner_vars, unit_vars, fx_max, fx_result,
                   fetch_rest>>

\* one pass in which client.get returns a response with status >= 500
FetchServerError ==
    /\ fx_pc = "loop"
    /\ fx_attempt < fx_max
    /\ \E o \in GetOutcomes :
          /\ o.kind = "response" /\ o.status >= 500
          /\ fx_trace' = Append(fx_trace, o)
    /\ fx_attempt' = fx_attempt + 1
    /\ UNCHANGED <<pc, parser_vars, clock, calls, runner_vars, unit_vars, fx_max, fx_pc,
                   fx_result, fetch_rest>>

\* one pass in which client.get returns any other response: build the result, return
FetchResponse ==
    /\ fx_pc = "loop"
    /\ fx_attempt < fx_max
    /\ \E o \in GetOutcomes :
          /\ o.kind = "response" /\ o.status # 429 /\ o.status < 500
          /\ fx_trace' = Append(fx_trace, o)
          /\ fx_result' = FetchResult(o.status = 200, o.status, None)
    /\ fx_pc' = "returned"
    /\ UNCHANGED <<pc, parser_vars, clock, calls, runner_vars, unit_vars, fx_max, fx_attempt,
                   fetch_rest>>

\* one pass in which client.get raises httpx.TimeoutException or httpx.RequestError
FetchException ==
    /\ fx_pc = "loop"
    /\ fx_attempt < fx_max
    /\ \E o \in GetOutcomes :
          /\ o.kind # "response"
          /\ fx_trace' = Append(fx_trace, o)
          /\ IF fx_attempt < fx_max - 1
             THEN fx_attempt' = fx_attempt + 1 /\ fx_pc' = "loop" /\ fx_result' = fx_result
             ELSE /\ fx_attempt' = fx_attempt
                  /\ fx_pc' = "returned"
                  /\ fx_result' = FetchResult(FALSE, None,
                                     IF o.kind = "timeout" THEN "Timeout" ELSE "RequestError")
    /\ UNCHANGED <<pc, parser_vars, clock, calls, runner_vars, unit_vars, fx_max, fetch_rest>>

\* the loop ran out: return FetchResult(success=False, error="Max retries exceeded")
FetchExhausted ==
    /\ fx_pc = "loop"
    /\ fx_attempt >= fx_max
    /\ fx_pc' = "returned"
    /\ fx_result' = FetchResult(FALSE, None, "Max retries exceeded")
    /\ UNCHANGED <<pc, parser_vars, clock, calls, runner_vars, unit_vars, fx_max, fx_attempt,
                   fx_trace, fetch_rest>>

NextFetch ==
    FetchRateLimited \/ FetchServerError \/ FetchResponse \/ FetchException \/ FetchExhausted

SpecFetch == InitFetch /\ [][NextFetch]_vars

----------------------------------------------------------------------------
(* ToyotaPDFScraper.download_pdf (src/scrapers/toyota_pdf.py).  A model name and
   a file content are sequences of pieces. *)

MaxDownloads == 3

\* the None download_pdf returns in place of a path
NoPath == <<>>

\* the keys of TOYOTA_MODELS that the calls use
KnownModels == { <<"Camry">>, <<"Grand", " ", "Highlander">> }

\* model names the calls are made with: known ones and one that is no key
DownloadModels == KnownModels \cup { <<"Grand", "_", "Highlander">> }

DownloadYears == {2024}

\* what a server delivers as the body of a 200 response
Bodies == { <<"%PDF", "guide">>, <<"%PDF", "guide, revised">>, <<"<html>">>, <<>> }

\* what fetch_binary(url) does: it returns a body or, the retries used up, raises
BinaryOutcomes ==
    {[raised |-> FALSE, content |-> b] : b \in Bodies}
    \cup {[raised |-> TRUE, content |-> <<>>]}

\* model.replace(' ', '_')
ReplaceSpaces(model) == [i \in 1..Len(model) |-> IF model[i] = " " THEN "_" ELSE model[i]]

\* _get_cache_path(model, year), relative to pdf_dir
CachePath(model, year) == <<year, "_">> \o ReplaceSpaces(model) \o <<".pdf">>

\* _is_cached(model, year)
IsCached(files, model, year) ==
    /\ CachePath(model, year) \in DOMAIN files
    /\ files[CachePath(model, year)] # <<>>

\* a check that takes any non-empty body for a PDF
StartsWithAnything(content) == content # <<>>

\* content.startswith(b'%PDF')
StartsWithPdf(content) == content # <<>> /\ content[1] = "%PDF"

\* cache_path.write_bytes(content)
WriteBytes(files, path, content) ==
    [p \in DOMAIN files \cup {path} |-> IF p = path THEN content ELSE files[p]]

\* an empty PDF cache, no call made yet
InitDownload ==
    /\ pc = "ready"
    /\ ParserIdle
    /\ CondIdle
    /\ FallbackIdle
    /\ RunnerIdle
    /\ UnitIdle
    /\ ToyotaSplitIdle
    /\ SharedIdle
    /\ CheckpointIdle
    /\ FetchIdle
    /\ cache = <<>>
    /\ dl = [pc |-> "returned", model |-> <<>>, year |-> 0, force |-> FALSE,
             tried |-> <<>>, result |-> NoPath, before |-> <<>>]
    /\ dl_count = 0

\* download_pdf(model, year, force) is called
DownloadCall ==
    /\ dl.pc = "returned"
    /\ dl_count < MaxDownloads
    /\ dl_count' = dl_count + 1
    /\ \E model \in DownloadModels, year \in DownloadYears, force \in BOOLEAN :
          dl' = [pc |-> "called", model |-> model, year |-> year, force |-> force,
                 tried |-> <<>>, result |-> NoPath, before |-> cache]
    /\ UNCHANGED <<pc, parser_vars, clock, calls, runner_vars, unit_vars, cache, download_rest>>

\* not force and the file is cached: return cache_path
DownloadCached ==
    /\ dl.pc = "called"
    /\ ~dl.force /\ IsCached(cache, dl.model, dl.year)
    /\ dl' = [dl EXCEPT !.pc = "returned", !.result = CachePath(dl.model, dl.year)]
    /\ UNCHANGED <<pc, parser_vars, clock, calls, runner_vars, unit_vars, cache, dl_count,
                   download_rest>>

\* the try block: get_pdf_url raises for a model that is no key of TOYOTA_MODELS;
\* otherwise fetch_binary(url), the %PDF check, write_bytes
DownloadPrimary ==
    /\ dl.pc = "called"
    /\ dl.force \/ ~IsCached(cache, dl.model, dl.year)
    /\ IF dl.model \notin KnownModels
       THEN dl' = [dl EXCEPT !.pc = "except"] /\ cache' = cache
       ELSE \E o \in BinaryOutcomes :
              LET tried == Append(dl.tried, [url |-> "primary", outcome |-> o])
              IN  IF o.raised
                  THEN dl' = [dl EXCEPT !.pc = "except", !.tried = tried] /\ cache' = cache
                  ELSE IF ~StartsWithPdf(o.content)
                  THEN /\ dl' = [dl EXCEPT !.pc = "returned", !.tried = tried,
                                           !.result = NoPath]
                       /\ cache' = cache
                  ELSE /\ dl' = [dl EXCEPT !.pc = "returned", !.tried = tried,
                                           !.result = CachePath(dl.model, dl.year)]
                       /\ cache' = WriteBytes(cache, CachePath(dl.model, dl.year), o.content)
    /\ UNCHANGED <<pc, parser_vars, clock, calls, runner_vars, unit_vars, dl_count,
                   download_rest>>

\* the except branch: _try_alternate_url, whose exceptions end in return None
DownloadAlternate ==
    /\ dl.pc = "except"
    /\ IF dl.model \notin KnownModels
       THEN dl' = [dl EXCEPT !.pc = "returned", !.result = NoPath] /\ cache' = cache
       ELSE \E o \in BinaryOutcomes :
              LET tried == Append(dl.tried, [url |-> "alternate", outcome |-> o])
              IN  IF o.raised \/ ~StartsWithPdf(o.content)
                  THEN /\ dl' = [dl EXCEPT !.pc = "returned", !.tried = tried,
                                           !.result = NoPath]
                       /\ cache' = cache
                  ELSE /\ dl' = [dl EXCEPT !.pc = "returned", !.tried = tried,
                                           !.result = CachePath(dl.model, dl.year)]
                       /\ cache' = WriteBytes(cache, CachePath(dl.model, dl.year), o.content)
    /\ UNCHANGED <<pc, parser_vars, clock, calls, runner_vars, unit_vars, dl_count,
                   download_rest>>

NextDownload == DownloadCall \/ DownloadCached \/ DownloadPrimary \/ DownloadAlternate

SpecDownload == InitDownload /\ [][NextDownload]_vars

----------------------------------------------------------------------------
(* Properties *)

\* what the text itself says: the mileage a header announces, the positions of the
\* headers, and the text between a header and the next one
HeaderMiles(h) == IntOf(RemoveCommas(HdrGroup1(h)))

HeaderPositions(text) == {i \in 1..Len(text) : text[i] \in HeaderTokens}

TextAfterHeader(text, i) ==
    LET later == {j \in HeaderPositions(text) : j > i}
        stop == IF later = {} THEN Len(text) + 1
                ELSE CHOOSE j \in later : \A k \in later : j <= k
    IN  SubSeq(text, i + 1, stop - 1)

\* C1: for any text in which two interval headers report the same mileage (whether or
\* not their months are equal), the result of _split_by_intervals holds exactly one
\* entry for that mileage, and its chunk is the text that follows the later header.
C1_LastOccurrenceWins ==
    (pc = "done" /\ ~failed) =>
        \A i, j \in HeaderPositions(doc) :
            (i < j /\ HeaderMiles(doc[i]) = HeaderMiles(doc[j])) =>
                LET entries == {n \in 1..Len(sections) :
                                   sections[n].key[1] = HeaderMiles(doc[i])}
                    last == CHOOSE l \in HeaderPositions(doc) :
                                /\ HeaderMiles(doc[l]) = HeaderMiles(doc[i])
                                /\ \A k \in HeaderPositions(doc) :
                                       HeaderMiles(doc[k]) = HeaderMiles(doc[i]) => k <= l
                IN  /\ Cardinality(entries) = 1
                    /\ \A n \in entries : sections[n].val = TextAfterHeader(doc, last)

\* C2: the interval list _parse_intervals returns is strictly increasing by
\* interval_miles: no two intervals of a returned schedule have the same mileage.
C2_StrictlyIncreasingMiles ==
    pc = "done" =>
        \A i, j \in 1..Len(schedule.intervals) :
            i < j => schedule.intervals[i].interval_miles
                         < schedule.intervals[j].interval_miles

\* C3: if two classified (mileage, months, items) triples with the same mileage and
\* non-empty item lists reach schedule assembly, the parse fails with a
\* duplicate-interval error and returns no schedule that contains both.
C3_DuplicateIntervalRejected ==
    (pc = "done"
     /\ \E a, b \in 1..Len(triples) :
            /\ a # b
            /\ triples[a].interval_miles = triples[b].interval_miles
            /\ triples[a].items # <<>>
            /\ triples[b].items # <<>>)
    => (failed /\ schedule.intervals = <<>>)

\* C4: for every item of every interval of a schedule returned by a parse, a category
\* other than special_condition implies that the condition is absent (None).
C4_ConditionOnlyOnSpecial ==
    pc = "done" =>
        \A n \in 1..Len(schedule.intervals) :
            \A k \in 1..Len(schedule.intervals[n].items) :
                schedule.intervals[n].items[k].category # "special_condition"
                    => schedule.intervals[n].items[k].condition = None

\* C9: no schedule returned by a parse (MaintenancePDFParser.parse or
\* ToyotaPDFParser.parse_pdf_text) contains an interval whose item list is empty.
C9_NoEmptyInterval ==
    pc = "done" =>
        /\ \A n \in 1..Len(schedule.intervals) : schedule.intervals[n].items # <<>>
        /\ \A n \in 1..Len(tschedule.intervals) : tschedule.intervals[n].items # <<>>

\* the line (1-based) of position p of the sub-span, and what its lines contain
LineOf(p) == 1 + Cardinality({q \in 1..(p - 1) : subspan[q] = NL})

LineHasKeyword(l, n) ==
    \E p \in 1..Len(subspan) :
        SPECIAL_CONDITIONS[n][1] \in TokenKeywords(subspan[p]) /\ LineOf(p) = l

\* the lines that contain a keyword
KeywordLines ==
    {LineOf(p) : p \in {q \in 1..Len(subspan) : TokenKeywords(subspan[q]) # {}}}

IsKeywordLine(l) == l \in KeywordLines

\* the condition of the first keyword, in table order, that occurs in line l
LineCondition(l) ==
    LET first == CHOOSE n \in 1..Len(SPECIAL_CONDITIONS) :
                     LineHasKeyword(l, n) /\ \A m \in 1..(n - 1) : ~LineHasKeyword(l, m)
    IN  SPECIAL_CONDITIONS[first][2]

\* the nearest keyword line at or before line l, 0 if there is none
GoverningLine(l) ==
    LET before == {g \in KeywordLines : g <= l}
    IN  IF before = {} THEN 0
        ELSE CHOOSE g \in before : \A h \in before : h <= g

\* C10: every item _parse_special_conditions extracts is tagged with the condition of
\* the nearest keyword line at or before the line of its marker, a line's condition
\* being that of the first keyword in table order; a marker followed on its line by a
\* service phrase under a governing keyword line always yields its item, so a line
\* without keyword never ends the group and the last group is flushed.
C10_TaggedByNearestKeywordLine ==
    pc = "done" =>
        /\ \A k \in 1..Len(sc_items) :
               /\ GoverningLine(LineOf(sc_items[k].pos)) # 0
               /\ sc_items[k].condition
                      = LineCondition(GoverningLine(LineOf(sc_items[k].pos)))
        /\ \A p \in 1..(Len(subspan) - 1) :
               (/\ subspan[p] \in {BOX, UND}
                /\ subspan[p + 1] \in {DUSTY, TOWING, FILTER}
                /\ GoverningLine(LineOf(p)) # 0)
               => \E k \in 1..Len(sc_items) :
                      /\ sc_items[k].pos = p
                      /\ sc_items[k].condition = LineCondition(GoverningLine(LineOf(p)))

\* C10 witness: an item on a line without keyword, below two keyword lines of
\* different conditions, tagged with the condition of the nearer one
C10_Witness ==
    /\ pc = "done"
    /\ \E k \in 1..Len(sc_items) :
           LET l == LineOf(sc_items[k].pos)
           IN  /\ ~IsKeywordLine(l)
               /\ sc_items[k].condition = "towing"
               /\ \E g \in 1..l : IsKeywordLine(g) /\ LineCondition(g) = "dusty_roads"

\* C6: two calls of get_standard_schedule with the same (model, year, url), made at
\* any two moments, serialize to outputs that are identical in every field.
C6_FallbackDeterministic ==
    \A i, j \in 1..Len(calls) :
        (/\ calls[i].model = calls[j].model
         /\ calls[i].year = calls[j].year
         /\ calls[i].url = calls[j].url)
        => calls[i].out = calls[j].out

BaselineNames ==
    { "Rotate tires", "Inspect wiper blades", "Inspect and adjust all fluid levels",
      "Visually inspect brake system", "Check installation of driver's floor mat" }

TenKNames == {"Replace engine oil and oil filter", "Replace cabin air filter"}

ThirtyKNames ==
    { "Replace engine air filter", "Inspect drive shaft boots",
      "Inspect ball joints and dust covers", "Inspect fuel system" }

SixtyKNames == {"Inspect drive belts", "Replace spark plugs (V6 only)"}

ItemNames(interval) == {interval.items[k].name : k \in 1..Len(interval.items)}

\* C7: in the fallback schedule the item set of the interval at mileage m is exactly
\* the five baseline items, plus oil-and-filter and cabin filter iff 10,000 divides m,
\* plus the four 30,000 items iff 30,000 divides m, plus drive belts and spark plugs
\* (V6) iff 60,000 divides m, plus coolant iff m = 100,000, plus spark plugs iff
\* m = 120,000, and no other item.
C7_FallbackItemSets ==
    \A c \in 1..Len(calls) :
        \A n \in 1..Len(calls[c].out.intervals) :
            LET iv == calls[c].out.intervals[n]
                m == iv.mileage
                names == ItemNames(iv)
            IN  /\ BaselineNames \subseteq names
                /\ \A x \in TenKNames : x \in names <=> m % 10000 = 0
                /\ \A x \in ThirtyKNames : x \in names <=> m % 30000 = 0
                /\ \A x \in SixtyKNames : x \in names <=> m % 60000 = 0
                /\ "Replace engine coolant" \in names <=> m = 100000
                /\ "Replace spark plugs" \in names <=> m = 120000
                /\ names \subseteq BaselineNames \cup TenKNames \cup ThirtyKNames
                                   \cup SixtyKNames
                                   \cup {"Replace engine coolant", "Replace spark plugs"}
                /\ Cardinality(names) = Len(iv.items)

\* C7 witness: a fallback schedule was generated, with its 30,000, 100,000 and
\* 120,000 mile intervals
C7_Witness ==
    \E c \in 1..Len(calls) :
        \E a, b, d \in 1..Len(calls[c].out.intervals) :
            /\ calls[c].out.intervals[a].mileage = 30000
            /\ "Replace engine air filter" \in ItemNames(calls[c].out.intervals[a])
            /\ calls[c].out.intervals[b].mileage = 100000
            /\ "Replace engine coolant" \in ItemNames(calls[c].out.intervals[b])
            /\ calls[c].out.intervals[d].mileage = 120000
            /\ "Replace spark plugs" \in ItemNames(calls[c].out.intervals[d])

\* C8: for every model and year the fallback schedule has exactly 24 intervals, at
\* mileages 5,000, 10,000, ..., 120,000 in ascending order, the interval at 5,000*k
\* has months 6*k, every interval has items, and none has special-operating items.
C8_FallbackIntervals ==
    \A c \in 1..Len(calls) :
        /\ Len(calls[c].out.intervals) = 24
        /\ \A k \in 1..Len(calls[c].out.intervals) :
               /\ calls[c].out.intervals[k].mileage = 5000 * k
               /\ calls[c].out.intervals[k].months = 6 * k
               /\ calls[c].out.intervals[k].items # <<>>
               /\ calls[c].out.intervals[k].special_operating_items = <<>>

\* C8 witness: fallback schedules were generated for two different (model, year)
C8_Witness ==
    \E c, d \in 1..Len(calls) :
        /\ calls[c].model # calls[d].model
        /\ calls[c].year # calls[d].year
        /\ calls[c].out.intervals[24].mileage = 120000
        /\ calls[d].out.intervals[1].months = 6

\* C5: every schedule the maintenance pipeline records for a (model, year) has at
\* least one interval: when the PDF is unavailable, extraction returns nothing or the
\* parse yields no interval, the fallback schedule is recorded, never an empty one.
C5_RecordedScheduleHasIntervals ==
    /\ \A k \in 1..Len(schedules) : Len(schedules[k].intervals) >= 1
    /\ \A k \in 1..Len(outfile) : Len(outfile[k].intervals) >= 1

\* C11: in a special-conditions sub-span no item comes from a line before the first
\* line that contains a condition keyword, and a sub-span without any keyword line
\* produces zero items.
C11_NoItemsWithoutCondition ==
    pc = "done" =>
        /\ \A k \in 1..Len(sc_items) :
               \E g \in KeywordLines : g <= LineOf(sc_items[k].pos)
        /\ \A p \in 1..Len(subspan) :
               (subspan[p] \in {BOX, UND} /\ \A g \in KeywordLines : LineOf(p) < g)
               => \A k \in 1..Len(sc_items) : sc_items[k].pos # p
        /\ KeywordLines = {} => sc_items = <<>>

\* C11 witness: a marked service line stands before the first keyword line and yields
\* nothing, while the keyword line after it yields an item
C11_Witness ==
    /\ pc = "done"
    /\ Len(subspan) >= 3
    /\ subspan[1] = BOX
    /\ subspan[2] = FILTER
    /\ subspan[3] = NL
    /\ sc_items # <<>>
    /\ \A k \in 1..Len(sc_items) : sc_items[k].pos > 3

\* the key of the entry a matched header is stored under
HeaderKey(h) == <<IntOf(RemoveCommas(HdrGroup1(h))), IntOf(HdrGroup2(h))>>

\* C12: the chunk recorded for a header is exactly the text from the end of that header
\* match to the start of the next header match (end of text for the last): every entry
\* is the chunk of a header with its key, every header has an entry, the last header
\* of a key has its own chunk recorded, and every item stands at a marker between its
\* interval's header and the next header, so that text before the first header and
\* text after another header is never attributed to it.
C12_ChunkIsTextUpToNextHeader ==
    (pc = "done" /\ ~failed) =>
        /\ \A n \in 1..Len(sections) :
               \E i \in HeaderPositions(doc) :
                   /\ HeaderKey(doc[i]) = sections[n].key
                   /\ sections[n].val = TextAfterHeader(doc, i)
        /\ \A i \in HeaderPositions(doc) :
               \E n \in 1..Len(sections) :
                   /\ sections[n].key = HeaderKey(doc[i])
                   /\ (\A j \in HeaderPositions(doc) :
                           HeaderKey(doc[j]) = HeaderKey(doc[i]) => j <= i)
                      => sections[n].val = TextAfterHeader(doc, i)
        /\ \A n \in 1..Len(triples) :
               \A k \in 1..Len(triples[n].items) :
                   \E i \in HeaderPositions(doc) :
                       LET q == i + triples[n].items[k].pos
                       IN  /\ HeaderKey(doc[i]) = <<triples[n].interval_miles,
                                                     triples[n].interval_months>>
                           /\ q <= Len(doc)
                           /\ doc[q] \in {BOX, UND}
                           /\ \A j \in HeaderPositions(doc) : ~(i < j /\ j <= q)

\* C12 witness: a marked line before the first header, then two headers of different
\* keys, each followed by its own item
C12_Witness ==
    /\ pc = "done"
    /\ ~failed
    /\ Len(doc) >= 3
    /\ doc[1] = BOX
    /\ Len(sections) = 2
    /\ Len(triples) = 2
    /\ Len(triples[1].items) = 1
    /\ Len(triples[2].items) = 1
    /\ triples[1].items[1].category # triples[2].items[1].category

\* the integers N and M a header line writes
WrittenMiles(h) ==
    CASE h = H5k6 -> 5000
      [] h = H5k7 -> 5000
      [] h = H10k12 -> 10000
      [] h = H15k18 -> 15000
      [] h = H500 -> 500
      [] h = H1M -> 1000000

WrittenMonths(h) ==
    CASE h = H5k6 -> 6
      [] h = H5k7 -> 7
      [] h = H10k12 -> 12
      [] h = H15k18 -> 18
      [] h = H500 -> 1
      [] h = H1M -> 600

\* C13: for every header line "<N> miles or <M> months" of the text, N comma-grouped or
\* not, _split_by_intervals yields an entry with mileage exactly N and months exactly
\* M, and it reports no mileage that is not the N of some header line of the text.
C13_ExactHeaderIntegers ==
    (pc = "done" /\ ~failed) =>
        /\ \A i \in 1..Len(doc) :
               doc[i] \in HeaderLines =>
                   \E n \in 1..Len(sections) :
                       sections[n].key = <<WrittenMiles(doc[i]), WrittenMonths(doc[i])>>
        /\ \A n \in 1..Len(sections) :
               \E i \in 1..Len(doc) :
                   doc[i] \in HeaderLines /\ sections[n].key[1] = WrittenMiles(doc[i])

\* C18: parse always returns a schedule that carries the given make, model, year and
\* source; when the text is empty or has no header, or when extraction or parsing
\* fails, its interval list is empty, never partially filled.
C18_ParseReturnsEmptyOnFailure ==
    pc = "done" =>
        /\ schedule.make = "Toyota"
        /\ schedule.model = args.model
        /\ schedule.year = args.year
        /\ schedule.source_pdf = <<args.year, args.model>>
        /\ (failed \/ doc = <<>> \/ HeaderPositions(doc) = {})
               => schedule.intervals = <<>>

\* C18 witness: extraction failed on a document that has a header with an item, and
\* the schedule returned has no interval
C18_Witness ==
    /\ pc = "done"
    /\ failed
    /\ ParseIntervals(doc) # <<>>
    /\ schedule.intervals = <<>>
    /\ schedule.model = "RAV4"

\* C14: every item _extract_items returns carries the condition it was called with:
\* the tag of the block for a special-condition block, none for the standard body.
C14_ItemsCarryGivenCondition ==
    pc = "done" =>
        \A k \in 1..Len(ex_items) : ex_items[k].condition = ex_condition

\* C14 witness: a condition block with a checkbox item and an underscore item
C14_Witness ==
    /\ pc = "done"
    /\ ex_condition = "towing"
    /\ \E k, l \in 1..Len(ex_items) :
           /\ ex_text[ex_items[k].pos] = BOX
           /\ ex_text[ex_items[l].pos] = UND

\* C15: every item of an underscore marker has category inspection whatever the
\* default category; every item of a checkbox marker has category standard in the
\* standard body and special_condition in a condition block.
C15_CategoryByMarker ==
    pc = "done" =>
        \A k \in 1..Len(ex_items) :
            /\ ex_text[ex_items[k].pos] \in {BOX, UND}
            /\ ex_text[ex_items[k].pos] = UND => ex_items[k].category = "inspection"
            /\ ex_text[ex_items[k].pos] = BOX =>
                   ex_items[k].category = IF ex_condition = None THEN "standard"
                                          ELSE "special_condition"

\* C15 witness: an underscore item found in a block whose default category is
\* special_condition
C15_Witness ==
    /\ pc = "done"
    /\ ex_category = "special_condition"
    /\ \E k \in 1..Len(ex_items) :
           ex_text[ex_items[k].pos] = UND /\ ex_items[k].category = "inspection"

C17_AllCleaningRulesApplied ==
    pc = "done" =>
        \A k \in 1..Len(ex_items) :
            /\ ~IsNumber(ex_items[k].service[1])
            /\ \A n \in 1..Len(ex_items[k].service) :
                   ex_items[k].service[n] \notin {FOOTER, EMPTY}

\* C19: the batch loop is left only after every (model, year) was handled, and the
\* schedules collected are then in the output file: no failure on one document
\* ends the loop early.
C19_BatchNeverAborts ==
    [][(pc = "loop" /\ pc' # "loop") =>
           /\ idx > Len(Jobs)
           /\ \A k \in 1..Len(schedules) : MakeKey(schedules[k]) \in SeenKeys(outfile')]_vars

\* C20: two parses of the same text with the same model, year and source by the same
\* parser instance give schedules equal in every field, whatever was parsed between.
C20_ReparseIsIdentical ==
    \A i, j \in 1..Len(parses) :
        (/\ parses[i].parser = parses[j].parser
         /\ parses[i].text = parses[j].text
         /\ parses[i].model = parses[j].model
         /\ parses[i].year = parses[j].year
         /\ parses[i].source = parses[j].source)
        => parses[i].out = parses[j].out

\* C21: parse invocations for different documents that run interleaved in any order
\* on one shared parser instance each return the schedule the same document gives when
\* parsed alone: nothing one invocation writes is read by another.
C21_InterleavedParseAsAlone ==
    \A t \in DOMAIN tasks :
        tasks[t].pc = "done" =>
            tasks[t].result.intervals = ParseIntervals(tasks[t].doc)

\* two invocations for different documents, each interrupted by the other, have both
\* returned schedules that hold special-condition items
C21_Witness ==
    /\ tasks # <<>>
    /\ \A t \in DOMAIN tasks : tasks[t].pc = "done" /\ tasks[t].mixed
    /\ \E t, u \in DOMAIN tasks :
          /\ tasks[t].doc # tasks[u].doc
          /\ \E n \in 1..Len(tasks[t].result.intervals) :
                \E k \in 1..Len(tasks[t].result.intervals[n].items) :
                    tasks[t].result.intervals[n].items[k].condition = "dusty_roads"
          /\ \E n \in 1..Len(tasks[u].result.intervals) :
                \E k \in 1..Len(tasks[u].result.intervals[n].items) :
                    tasks[u].result.intervals[n].items[k].condition = "towing"

\* the record shape of the schema: the keys of a record, of its interval entries and
\* of their items, and the three categories
HasRecordShape(r) ==
    /\ DOMAIN r = {"make", "model", "year", "maintenance_schedule", "source_pdf"}
    /\ \A n \in 1..Len(r.maintenance_schedule) :
          LET e == r.maintenance_schedule[n]
          IN  /\ DOMAIN e = {"interval_miles", "interval_months", "items"}
              /\ \A k \in 1..Len(e.items) :
                    /\ DOMAIN e.items[k] = {"service", "category", "condition"}
                    /\ e.items[k].category \in {"standard", "inspection", "special_condition"}

\* the schedules parse() returns serialize to records of that shape
ParsedScheduleHasShape ==
    (pc = "done" /\ schedule # NoSchedule) => HasRecordShape(ToDict(schedule))

\* C22: every schedule produced by a parse or by the fallback generator serializes to
\* a record with exactly the keys make, model, year, maintenance_schedule, source_pdf,
\* whose entries have exactly interval_miles, interval_months, items, and whose items
\* have exactly service, category, condition with one of the three categories.  Here:
\* the serialized schedules of the fallback generator.
C22_SerializedShape ==
    \A n \in 1..Len(calls) : HasRecordShape(calls[n].out)

\* the line of a chunk on which position p stands
LineNumber(text, p) == Cardinality({i \in 1..(p - 1) : text[i] = NL})

\* the chunk _split_by_intervals stored for an interval of the schedule
ChunkOf(interval) ==
    LET n == CHOOSE n \in 1..Len(sections) :
                 sections[n].key = <<interval.interval_miles, interval.interval_months>>
    IN  sections[n].val

\* C23: the items of an interval are in extraction order: of two items of one
\* interval, the one whose marker line occurs earlier in the chunk comes earlier in
\* the items list, whether the markers are checkboxes or underscores.
C23_ItemsInMarkerOrder ==
    (pc = "done" /\ ~failed) =>
        \A n \in 1..Len(schedule.intervals) :
            LET items == schedule.intervals[n].items
                text == ChunkOf(schedule.intervals[n])
            IN  \A a, b \in 1..Len(items) :
                    LineNumber(text, items[a].pos) < LineNumber(text, items[b].pos)
                    => a < b

\* C24: after any sequence of scraper runs, resumed or started fresh, with parsed or
\* fallback schedules, maintenance_schedules.jsonl never holds two records for the
\* same (model, year).
C24_OneRecordPerModelYear ==
    \A i, j \in 1..Len(outfile) :
        (outfile[i].model = outfile[j].model /\ outfile[i].year = outfile[j].year)
        => i = j

\* the calls that change the state of a Checkpoint
MutatingCalls == {"mark_completed", "start_session", "clear"}

\* C25: after any sequence of mark_completed, start_session and clear calls,
\* is_completed(source, model, year) is true iff that triple was marked completed
\* after the last clear, marks loaded from the file of an earlier process included
\* (so that start_session, which marks nothing, leaves the completed set as it was),
\* and after every mutating call the checkpoint file equals the state in memory.
C25_CheckpointTracksMarks ==
    /\ \A t \in CpTriples : IsCompleted(t[1], t[2], t[3]) <=> t \in cp_marked
    /\ (cp_log # <<>> /\ cp_log[Len(cp_log)] \in MutatingCalls) =>
          (cp_file # None /\ JsonLoad(cp_file) = cp_state)

\* a mark, a later process that loads it, a clear, a new mark and a start_session
C25_Witness ==
    /\ cp_log = <<"mark_completed", "__init__", "clear", "mark_completed", "start_session">>
    /\ cp_marked = { <<"toyota-pdf", <<"Camry", ":", 2024>>, 2024>> }
    /\ cp_state.started_at = 2
    /\ Len(cp_state.completed) = 1

\* a record for (model, year) is among the records
HasRecord(records, model, year) ==
    \E n \in 1..Len(records) : records[n].model = model /\ records[n].year = year

\* C26: no (model, year) is marked completed in the persisted checkpoint while its
\* record is neither in maintenance_schedules.jsonl nor in the list the running
\* scrape is going to write; so a run resumed after an interruption or a failure
\* ends with a record for every selected (model, year).
C26_CompletedImpliesRecorded ==
    \A n \in 1..Len(Jobs) :
        CheckpointKey(Jobs[n][1], Jobs[n][2]) \in completed =>
            \/ HasRecord(outfile, Jobs[n][1], Jobs[n][2])
            \/ pc = "loop" /\ HasRecord(schedules, Jobs[n][1], Jobs[n][2])

\* the responses among the outcomes of the GET requests made so far
ResponsesReceived == SelectSeq(fx_trace, LAMBDA o : o.kind = "response")

\* the status of the last response received, 0 if there was none
LastStatus ==
    IF ResponsesReceived = <<>> THEN 0
    ELSE ResponsesReceived[Len(ResponsesReceived)].status

\* what holds of fetch whether or not it raises: at most max_retries GET requests,
\* success iff the last response had status 200, every 429 and 5xx response consumed
\* an attempt, every other response ended the call at once
FetchRetriesAsStated ==
    /\ Len(fx_trace) <= fx_max
    /\ fx_pc = "returned" => (fx_result.success <=> LastStatus = 200)
    /\ fx_pc = "loop" => fx_attempt = Len(fx_trace)
    /\ \A i \in 1..Len(fx_trace) :
          (fx_trace[i].kind = "response" /\ fx_trace[i].status # 429
                                         /\ fx_trace[i].status < 500)
          => (i = Len(fx_trace) /\ fx_pc = "returned"
                                /\ fx_result.status_code = fx_trace[i].status)

\* C27: for any sequence of server responses, timeouts and request errors, fetch ends
\* after at most max_retries GET requests and returns a FetchResult instead of
\* raising; success is true iff the last response received had status 200, a 429 or
\* 5xx response consumes one attempt and is retried, any other status is returned at
\* once.
C27_FetchAlwaysReturns ==
    /\ fx_pc # "raised"
    /\ FetchRetriesAsStated

\* the URLs the call requested
UrlsTried == {dl.tried[n].url : n \in 1..Len(dl.tried)}

\* a request of the call delivered content that starts with %PDF
DeliveredPdf(n) ==
    /\ ~dl.tried[n].outcome.raised
    /\ dl.tried[n].outcome.content # <<>>
    /\ dl.tried[n].outcome.content[1] = "%PDF"

\* C28: download_pdf returns None only after both the primary URL and, for a known
\* model, the alternate URL have been tried and have failed to deliver content that
\* starts with %PDF; it never raises to its caller.
C28_NoneOnlyAfterBothUrls ==
    (dl.pc = "returned" /\ dl_count > 0 /\ dl.result = NoPath /\ dl.model \in KnownModels) =>
        /\ UrlsTried = {"primary", "alternate"}
        /\ \A n \in 1..Len(dl.tried) : ~DeliveredPdf(n)

\* C29: starting from an empty PDF cache, after any sequence of download_pdf calls
\* every file of the cache has content that begins with %PDF, and a call with force
\* = false for a (model, year) whose non-empty cache file exists returns that path,
\* issues no network request and leaves the file as it was.
C29_CacheHoldsOnlyPdfs ==
    /\ \A p \in DOMAIN cache : cache[p] # <<>> /\ cache[p][1] = "%PDF"
    /\ (/\ dl.pc = "returned" /\ dl_count > 0 /\ ~dl.force
        /\ CachePath(dl.model, dl.year) \in DOMAIN dl.before
        /\ dl.before[CachePath(dl.model, dl.year)] # <<>>)
       => /\ dl.result = CachePath(dl.model, dl.year)
          /\ dl.tried = <<>>
          /\ cache = dl.before

\* a forced call has replaced a cached guide by its revision, and a later call
\* without force has returned the cached file
C29_Witness ==
    /\ dl.pc = "returned" /\ dl_count = 3 /\ ~dl.force
    /\ dl.model = <<"Grand", " ", "Highlander">>
    /\ dl.result = CachePath(dl.model, dl.year)
    /\ dl.tried = <<>>
    /\ CachePath(dl.model, dl.year) \in DOMAIN cache
    /\ cache[CachePath(dl.model, dl.year)] = <<"%PDF", "guide, revised">>

\* C30: every (mileage, months, section) triple ToyotaPDFParser._split_by_intervals
\* returns corresponds to a header of the text whose mileage is exactly that value
\* (never a header of a larger mileage that ends in the same digits), its section
\* ends at the nearest following interval header, and the triples are strictly
\* ascending, hence unique, by mileage.
C30_ToyotaSectionsMatchHeaders ==
    pc = "done" =>
        /\ \A n \in 1..Len(tsections) :
              \E i \in HeaderPositions(doc) :
                  /\ WrittenMiles(doc[i]) = tsections[n][1]
                  /\ tsections[n][3] = TextAfterHeader(doc, i)
        /\ \A n \in 1..(Len(tsections) - 1) : tsections[n][1] < tsections[n + 1][1]

\* the triples are always in ascending order of mileage
ToyotaSectionsAscending ==
    \A n \in 1..(Len(tsections) - 1) : tsections[n][1] < tsections[n + 1][1]

\* a 5,000-mile triple comes back for a text whose only header is of 15,000 miles
ToyotaSuffixNeverMatches ==
    ~(/\ pc = "done"
      /\ \E n \in 1..Len(tsections) : tsections[n][1] = 5000
      /\ \A i \in HeaderPositions(doc) : doc[i] = H15k18)

====
